---- MODULE Spec2Model ----
(***************************************************************************)
(* Model of setup-data: the C# entity parser's dependency resolver         *)
(* (src/src/csharp-parser/index.js), the C# mock generator (second half    *)
(* of src/src/cli.js), the API importer (src/src/generators/index.js)      *)
(* and the database import paths (src/src/adapters/mysql.js, cli.js).      *)
(*                                                                         *)
(* Strings are sequences of one-character strings, so that endsWith,       *)
(* startsWith, includes and slice are computed as JavaScript computes      *)
(* them.  Entity names are ordinary identifiers: the plain-object maps of  *)
(* the source (visited, temp, graph, dependencies) are read as maps, which *)
(* is what they are for every name that is not a member of                 *)
(* Object.prototype (constructor, toString, ...).                          *)
(***************************************************************************)
EXTENDS Integers, Sequences, FiniteSets, TLC

VARIABLES
    files,        \* the directory listing: the .cs files in readdir order
    entities,     \* parseEntityDirectory's result, in key (insertion) order
    graph,        \* buildDependencyGraph's result, in key order
    visited,      \* topologicalSort: visited
    temp,         \* topologicalSort: temp
    cycles,       \* topologicalSort: cycles
    result,       \* topologicalSort: result (first pass)
    result2,      \* topologicalSort: result2 (second pass)
    stack,        \* the call stack of visit / simpleVisit
    k,            \* position of the top-level forEach over Object.keys(graph)
    pc,           \* where the run stands
    sorted,       \* the value topologicalSort returned
    seed,         \* generateAllEntities: options.seed
    count,        \* generateAllEntities: options.count
    rng,          \* the state of faker's seeded random stream
    gi,           \* generateAllEntities: position in sortedEntities
    ri,           \* generateMockData: the record index i
    pi,           \* generateMockData: position in entityInfo.properties
    rec,          \* generateMockData: the record being filled (entity)
    cur,          \* generateMockData: the records pushed so far (entities)
    generated,    \* generateAllEntities: generatedEntities, in key order
    written,      \* the output files written so far, in order
    script,       \* the entity list of import-all.js, <<"none">> before it is written
    run,          \* 1 or 2: which of the two runs over the same input this is
    firstRun,     \* what the first run returned
    apiTransactional, \* importToApi: apiConfig.transactional
    apiData,      \* importToApi: the number of items in data
    apiNext,      \* importToApi: position of the for loop over data
    apiResults,   \* importToApi: results
    apiErrors,    \* importToApi: errors
    apiServer,    \* the items that exist on the API
    apiRequests,  \* the HTTP requests sent, in order
    apiRb,        \* importToApi: position of the rollback loop over results
    apiPc,        \* importToApi: where the call stands
    dbPath,       \* which database import path runs
    dbTransactional, \* config.database.transactional !== false
    dbSkip,       \* the import command's duplicateStrategy === 'skip'
    dbData,       \* the number of items to insert
    dbNext,       \* position of the for loop over the items
    dbLog,        \* the statements sent to the connection, in order
    dbPc,         \* where the import stands
    vPath,        \* "setupImport", "setupGenerate" or "cliImport"
    vSchemaGiven, \* options.schemaPath / options.schema is set
    vSchemaParses,\* parseSchema(schemaPath) succeeds
    vItemsValid,  \* per record of the data: validateObject finds no error
    vValidated,   \* "notCalled", or what validateSchema returned
    vSent,        \* the indexes of the records handed to the import, in order
    vPc,          \* where the operation stands
    cKey,         \* the string given to a case conversion
    cStyle,       \* the caseStyle argument of transformCase
    cValue,       \* the obj argument of transformCase
    cOut,         \* what transformCase returned or threw
    cPc,          \* where the call stands
    lnLines,      \* parseEntityFile: the lines of the file's content
    lnI,          \* parseEntityFile: position of the loop over lines
    lnPending,    \* parseEntityFile: currentAttributes
    lnProps,      \* parseEntityFile: properties
    lnPc,         \* where the scan of the lines stands
    scSchema,     \* the JSON schema given to the generator and the validator
    scItem,       \* the record generateMockItem returned
    scErrors,     \* the errors validateObject returned for the record
    scPc,         \* where the generate-then-validate run stands
    txFails,      \* withTransaction: which of its awaited calls rejects
    txLog,        \* withTransaction: the calls made on the connection, in order
    txThrown,     \* withTransaction: the error the caller received
    txPc          \* where the call stands

topoVars == <<visited, temp, cycles, result, result2, stack, k, sorted>>

genVars == <<seed, count, rng, gi, ri, pi, rec, cur, generated, written, script, run, firstRun>>

apiVars == <<apiTransactional, apiData, apiNext, apiResults, apiErrors, apiServer,
             apiRequests, apiRb, apiPc>>

dbVars == <<dbPath, dbTransactional, dbSkip, dbData, dbNext, dbLog, dbPc>>

setupVars == <<vPath, vSchemaGiven, vSchemaParses, vItemsValid, vValidated, vSent, vPc>>

caseVars == <<cKey, cStyle, cValue, cOut, cPc>>

lineVars == <<lnLines, lnI, lnPending, lnProps, lnPc>>

schemaVars == <<scSchema, scItem, scErrors, scPc>>

txVars == <<txFails, txLog, txThrown, txPc>>

restVars == <<lineVars, schemaVars, txVars>>

----------------------------------------------------------------------------
(* Strings *)

StartsWith(s, p) == Len(s) >= Len(p) /\ SubSeq(s, 1, Len(p)) = p

EndsWith(s, p) == Len(s) >= Len(p) /\ SubSeq(s, Len(s) - Len(p) + 1, Len(s)) = p

Includes(s, p) == \E i \in 0..(Len(s) - Len(p)) : SubSeq(s, i + 1, i + Len(p)) = p

\* s.slice(0, -2)
SliceOffLast2(s) == IF Len(s) >= 2 THEN SubSeq(s, 1, Len(s) - 2) ELSE <<>>

\* s.slice(0, -1)
SliceOffLast1(s) == IF Len(s) >= 1 THEN SubSeq(s, 1, Len(s) - 1) ELSE <<>>

\* 1-based position of the first x in seq, 0 when absent (indexOf's -1)
IndexOf(seq, x) ==
    IF \E i \in 1..Len(seq) : seq[i] = x
    THEN CHOOSE i \in 1..Len(seq) : seq[i] = x /\ \A j \in 1..(i - 1) : seq[j] # x
    ELSE 0

Reverse(seq) == [i \in 1..Len(seq) |-> seq[Len(seq) + 1 - i]]

sEmpty == <<>>
sId == <<"I", "d">>
sName == <<"N", "a", "m", "e">>
sCat == <<"C", "a", "t">>
sDog == <<"D", "o", "g">>
sTags == <<"T", "a", "g", "s">>
sTag == <<"T", "a", "g">>
sCatId == <<"C", "a", "t", "I", "d">>
sDogId == <<"D", "o", "g", "I", "d">>
sTagsId == <<"T", "a", "g", "s", "I", "d">>
sInt == <<"i", "n", "t">>
sIntQ == <<"i", "n", "t", "?">>
sLong == <<"l", "o", "n", "g">>
sString == <<"s", "t", "r", "i", "n", "g">>
sStringQ == <<"s", "t", "r", "i", "n", "g", "?">>
sTagQ == <<"T", "a", "g", "?">>
sListCat == <<"L", "i", "s", "t", "<", "C", "a", "t", ">">>
sICollection == <<"I", "C", "o", "l", "l", "e", "c", "t", "i", "o", "n", "<">>
sList == <<"L", "i", "s", "t", "<">>
sHashSet == <<"H", "a", "s", "h", "S", "e", "t", "<">>
sFirstName == <<"F", "i", "r", "s", "t", "N", "a", "m", "e">>
sLastName == <<"L", "a", "s", "t", "N", "a", "m", "e">>
sFullName == <<"F", "u", "l", "l", "N", "a", "m", "e">>
sFirst == <<"F", "i", "r", "s", "t">>
sLast == <<"L", "a", "s", "t">>
sProduct == <<"P", "r", "o", "d", "u", "c", "t">>
sCompany == <<"C", "o", "m", "p", "a", "n", "y">>
sSupplier == <<"S", "u", "p", "p", "l", "i", "e", "r">>
sEmail == <<"E", "m", "a", "i", "l">>
sPhone == <<"P", "h", "o", "n", "e">>
sAddress == <<"A", "d", "d", "r", "e", "s", "s">>
sCity == <<"C", "i", "t", "y">>
sCountry == <<"C", "o", "u", "n", "t", "r", "y">>
sPostalCode == <<"P", "o", "s", "t", "a", "l", "C", "o", "d", "e">>
sZipCode == <<"Z", "i", "p", "C", "o", "d", "e">>
sDescription == <<"D", "e", "s", "c", "r", "i", "p", "t", "i", "o", "n">>
sNotes == <<"N", "o", "t", "e", "s">>
sComments == <<"C", "o", "m", "m", "e", "n", "t", "s">>
sPrice == <<"P", "r", "i", "c", "e">>
sCost == <<"C", "o", "s", "t">>
sAmount == <<"A", "m", "o", "u", "n", "t">>
sDiscount == <<"D", "i", "s", "c", "o", "u", "n", "t">>
sTax == <<"T", "a", "x">>
sQuantity == <<"Q", "u", "a", "n", "t", "i", "t", "y">>
sStock == <<"S", "t", "o", "c", "k">>
sMin == <<"M", "i", "n">>
sMax == <<"M", "a", "x">>
sIs == <<"I", "s">>
sHas == <<"H", "a", "s">>
sRequires == <<"R", "e", "q", "u", "i", "r", "e", "s">>
sInt32 == <<"I", "n", "t", "3", "2">>
sInt64 == <<"I", "n", "t", "6", "4">>
sDecimalT == <<"d", "e", "c", "i", "m", "a", "l">>
sDoubleT == <<"d", "o", "u", "b", "l", "e">>
sFloatT == <<"f", "l", "o", "a", "t">>
sBoolT == <<"b", "o", "o", "l">>
sBoolean == <<"B", "o", "o", "l", "e", "a", "n">>
sDateTime == <<"D", "a", "t", "e", "T", "i", "m", "e">>
sGuid == <<"G", "u", "i", "d">>
sCreatedAt == <<"C", "r", "e", "a", "t", "e", "d", "A", "t">>
sCreate == <<"C", "r", "e", "a", "t", "e">>
sUpdatedAt == <<"U", "p", "d", "a", "t", "e", "d", "A", "t">>
sUpdate == <<"U", "p", "d", "a", "t", "e">>
sBirth == <<"B", "i", "r", "t", "h">>
sExpiry == <<"E", "x", "p", "i", "r", "y">>
sCats == <<"C", "a", "t", "s">>
sQuestion == <<"?">>
sAdmin == <<"A", "d", "m", "i", "n">>
sManager == <<"M", "a", "n", "a", "g", "e", "r">>
sPharmacist == <<"P", "h", "a", "r", "m", "a", "c", "i", "s", "t">>

----------------------------------------------------------------------------
(* Parsing: a file is its class name, its property declarations (name,     *)
(* type, whether a [Required] marker stands directly above) and the        *)
(* text between the braces of its enum declarations.                       *)

IsCollectionType(t) ==
    Includes(t, sICollection) \/ Includes(t, sList) \/ Includes(t, sHashSet)

\* content.includes(`public class ${propType}`): the file holds one class
\* declaration, so the text is found iff propType is a prefix of its name
ContentIncludesClass(className, propType) == StartsWith(className, propType)

IsNavigationProperty(propType, className) ==
    \/ IsCollectionType(propType)
    \/ /\ ~StartsWith(propType, sString)
       /\ ~StartsWith(propType, sInt)
       /\ ~StartsWith(propType, sDecimalT)
       /\ ~StartsWith(propType, sDoubleT)
       /\ ~StartsWith(propType, sFloatT)
       /\ ~StartsWith(propType, sBoolT)
       /\ ~StartsWith(propType, sDateTime)
       /\ ~StartsWith(propType, sGuid)
       /\ ~Includes(propType, sQuestion)
       /\ ContentIncludesClass(className, propType)

\* prop.type.match(/<([^>]+)>/)[1]
GenericArgument(t) ==
    LET open == CHOOSE i \in 1..Len(t) :
                    /\ t[i] = "<"
                    /\ i < Len(t) /\ t[i + 1] # ">"
                    /\ \A j \in 1..(i - 1) : ~(t[j] = "<" /\ j < Len(t) /\ t[j + 1] # ">")
        close == CHOOSE i \in (open + 2)..Len(t) :
                    t[i] = ">" /\ \A j \in (open + 1)..(i - 1) : t[j] # ">"
    IN SubSeq(t, open + 1, close - 1)

RelationshipOf(prop) ==
    IF prop.isNavigation
    THEN <<[propertyName |-> prop.name,
            targetEntity |-> IF IsCollectionType(prop.type)
                             THEN GenericArgument(prop.type) ELSE prop.type,
            type |-> IF IsCollectionType(prop.type) THEN "oneToMany" ELSE "oneToOne"]>>
    ELSE IF EndsWith(prop.name, sId) /\ prop.type = sInt
    THEN <<[propertyName |-> prop.name,
            targetEntity |-> SliceOffLast2(prop.name),
            type |-> "manyToOne"]>>
    ELSE <<>>

RECURSIVE ExtractRelationships(_)
ExtractRelationships(properties) ==
    IF properties = <<>> THEN <<>>
    ELSE RelationshipOf(Head(properties)) \o ExtractRelationships(Tail(properties))

\* the entries of an enum body after split(','), trim and the filter on ''
RECURSIVE NonEmptyEntries(_)
NonEmptyEntries(body) ==
    IF body = <<>> THEN <<>>
    ELSE IF Head(body).name = sEmpty THEN NonEmptyEntries(Tail(body))
    ELSE <<Head(body)>> \o NonEmptyEntries(Tail(body))

EnumMemberValue(entry, i) == IF entry.explicit THEN entry.value ELSE i

ParseEnumValues(body) ==
    LET kept == NonEmptyEntries(body)
    IN [i \in 1..Len(kept) |->
            [name |-> kept[i].name, value |-> EnumMemberValue(kept[i], i - 1)]]

ParseProperty(decl, className) ==
    [name |-> decl.name,
     type |-> decl.type,
     isRequired |-> decl.required,
     isNavigation |-> IsNavigationProperty(decl.type, className)]

ParseEntityFile(file) ==
    LET properties == [i \in 1..Len(file.decls) |->
                            ParseProperty(file.decls[i], file.className)]
    IN [entityName |-> file.className,
        properties |-> properties,
        relationships |-> ExtractRelationships(properties),
        enums |-> [i \in 1..Len(file.enums) |->
                        [name |-> file.enums[i].name,
                         values |-> ParseEnumValues(file.enums[i].body)]]]

\* content.match(CLASS_REGEX): a file without a class declaration has the
\* empty class name, and parseEntityFile throws on it
HasClassDeclaration(file) == file.className # sEmpty

\* a directory parse that stops at the first file that fails
RECURSIVE ParseEntityDirectoryAborting(_, _)
ParseEntityDirectoryAborting(fs, acc) ==
    IF fs = <<>> THEN acc
    ELSE IF ~HasClassDeclaration(Head(fs)) THEN acc
    ELSE ParseEntityDirectoryAborting(Tail(fs), Append(acc, ParseEntityFile(Head(fs))))

\* entities[entityInfo.entityName] = entityInfo: a later file with the same
\* class name replaces the value and keeps the key's place
RECURSIVE ParseEntityDirectoryFrom(_, _)
ParseEntityDirectoryFrom(fs, acc) ==
    IF fs = <<>> THEN acc
    ELSE IF ~HasClassDeclaration(Head(fs)) THEN ParseEntityDirectoryFrom(Tail(fs), acc)
    ELSE LET info == ParseEntityFile(Head(fs))
             at == CHOOSE i \in 0..Len(acc) :
                      \/ i > 0 /\ acc[i].entityName = info.entityName
                      \/ i = 0 /\ \A j \in 1..Len(acc) : acc[j].entityName # info.entityName
         IN ParseEntityDirectoryFrom(Tail(fs),
                IF at = 0 THEN Append(acc, info) ELSE [acc EXCEPT ![at] = info])

ParseEntityDirectory(fs) == ParseEntityDirectoryFrom(fs, <<>>)

RECURSIVE ManyToOneTargets(_)
ManyToOneTargets(rels) ==
    IF rels = <<>> THEN <<>>
    ELSE (IF Head(rels).type = "manyToOne" THEN <<Head(rels).targetEntity>> ELSE <<>>)
         \o ManyToOneTargets(Tail(rels))

BuildDependencyGraph(ents) ==
    [i \in 1..Len(ents) |->
        [name |-> ents[i].entityName,
         dependencies |-> ManyToOneTargets(ents[i].relationships)]]

----------------------------------------------------------------------------
(* topologicalSort, one step per call, per return and per loop iteration *)

GraphKeys == [i \in 1..Len(graph) |-> graph[i].name]

InGraph(n) == \E i \in 1..Len(graph) : graph[i].name = n

DepsOf(n) == graph[CHOOSE i \in 1..Len(graph) : graph[i].name = n].dependencies

\* m[key] read as a condition: a missing key is undefined, which is falsy
Truthy(m, key) == key \in DOMAIN m /\ m[key]

Put(m, key, val) == (key :> val) @@ m

Top == stack[Len(stack)]

Advanced == [stack EXCEPT ![Len(stack)].i = @ + 1]

Popped == SubSeq(stack, 1, Len(stack) - 1)

\* the recursion is at most one frame per entity deep; the guard of a call
\* stops the model, not the program, one frame above that
MaxStack == 5

\* the dependency edges both passes follow
FollowsEdge(dep) == InGraph(dep) /\ dep \notin cycles

\* visit without its `if (temp[node])` branch
VisitWithoutCycleCheck(base, node, path) ==
    IF Truthy(visited, node)
    THEN stack' = base /\ UNCHANGED <<temp, cycles>>
    ELSE /\ Len(base) < MaxStack
         /\ temp' = Put(temp, node, TRUE)
         /\ stack' = Append(base, [node |-> node, path |-> Append(path, node), i |-> 1])
         /\ UNCHANGED cycles

\* visit marking a node it meets again after the node was finished
VisitMarkingRevisits(base, node, path) ==
    IF Truthy(visited, node)
    THEN stack' = base /\ cycles' = cycles \cup {node} /\ UNCHANGED temp
    ELSE IF Truthy(temp, node)
    THEN /\ cycles' = IF IndexOf(path, node) # 0 THEN cycles \cup {node} ELSE cycles
         /\ stack' = base
         /\ UNCHANGED temp
    ELSE /\ Len(base) < MaxStack
         /\ temp' = Put(temp, node, TRUE)
         /\ stack' = Append(base, [node |-> node, path |-> Append(path, node), i |-> 1])
         /\ UNCHANGED cycles

\* visit(node, path) called with the caller's frames being `base`
Visit(base, node, path) ==
    IF Truthy(visited, node)
    THEN stack' = base /\ UNCHANGED <<temp, cycles>>
    ELSE IF Truthy(temp, node)
    THEN /\ cycles' = IF IndexOf(path, node) # 0 THEN cycles \cup {node} ELSE cycles
         /\ stack' = base
         /\ UNCHANGED temp
    ELSE /\ Len(base) < MaxStack
         /\ temp' = Put(temp, node, TRUE)
         /\ stack' = Append(base, [node |-> node, path |-> Append(path, node), i |-> 1])
         /\ UNCHANGED cycles

Pass1Top ==
    /\ pc = "pass1" /\ stack = <<>> /\ k <= Len(graph)
    /\ k' = k + 1
    /\ IF ~Truthy(visited, GraphKeys[k])
       THEN Visit(<<>>, GraphKeys[k], <<>>)
       ELSE UNCHANGED <<temp, cycles, stack>>
    /\ UNCHANGED <<files, entities, graph, visited, result, result2, pc, sorted>>
    /\ UNCHANGED <<setupVars, caseVars, restVars>>
    /\ UNCHANGED <<genVars, apiVars, dbVars>>

Pass1Dep ==
    /\ pc = "pass1" /\ stack # <<>> /\ Top.i <= Len(DepsOf(Top.node))
    /\ LET dep == DepsOf(Top.node)[Top.i]
       IN IF FollowsEdge(dep)
          THEN Visit(Advanced, dep, Top.path)
          ELSE stack' = Advanced /\ UNCHANGED <<temp, cycles>>
    /\ UNCHANGED <<files, entities, graph, visited, result, result2, k, pc, sorted>>
    /\ UNCHANGED <<setupVars, caseVars, restVars>>
    /\ UNCHANGED <<genVars, apiVars, dbVars>>

Pass1Return ==
    /\ pc = "pass1" /\ stack # <<>> /\ Top.i > Len(DepsOf(Top.node))
    /\ temp' = Put(temp, Top.node, FALSE)
    /\ visited' = Put(visited, Top.node, TRUE)
    /\ result' = Append(result, Top.node)
    /\ stack' = Popped
    /\ UNCHANGED <<files, entities, graph, cycles, result2, k, pc, sorted>>
    /\ UNCHANGED <<setupVars, caseVars, restVars>>
    /\ UNCHANGED <<genVars, apiVars, dbVars>>

\* Object.keys(visited).forEach(key => { visited[key] = false; })
Pass1End ==
    /\ pc = "pass1" /\ stack = <<>> /\ k > Len(graph)
    /\ visited' = [key \in DOMAIN visited |-> FALSE]
    /\ result2' = <<>>
    /\ k' = 1
    /\ pc' = "pass2"
    /\ UNCHANGED <<files, entities, graph, temp, cycles, result, stack, sorted>>
    /\ UNCHANGED <<setupVars, caseVars, restVars>>
    /\ UNCHANGED <<genVars, apiVars, dbVars>>

\* simpleVisit without its `if (visited[n]) return`
SimpleVisitNeverSkips(n) == FALSE

SimpleVisitSkips(n) == Truthy(visited, n)

\* simpleVisit(n) called with the caller's frames being `base`
SimpleVisit(base, n) ==
    IF SimpleVisitSkips(n)
    THEN stack' = base /\ UNCHANGED visited
    ELSE /\ Len(base) < MaxStack
         /\ visited' = Put(visited, n, TRUE)
         /\ stack' = Append(base, [node |-> n, path |-> <<>>, i |-> 1])

Pass2Top ==
    /\ pc = "pass2" /\ stack = <<>> /\ k <= Len(graph)
    /\ k' = k + 1
    /\ IF ~Truthy(visited, GraphKeys[k])
       THEN SimpleVisit(<<>>, GraphKeys[k])
       ELSE UNCHANGED <<visited, stack>>
    /\ UNCHANGED <<files, entities, graph, temp, cycles, result, result2, pc, sorted>>
    /\ UNCHANGED <<setupVars, caseVars, restVars>>
    /\ UNCHANGED <<genVars, apiVars, dbVars>>

Pass2Dep ==
    /\ pc = "pass2" /\ stack # <<>> /\ Top.i <= Len(DepsOf(Top.node))
    /\ LET dep == DepsOf(Top.node)[Top.i]
       IN IF FollowsEdge(dep)
          THEN SimpleVisit(Advanced, dep)
          ELSE stack' = Advanced /\ UNCHANGED visited
    /\ UNCHANGED <<files, entities, graph, temp, cycles, result, result2, k, pc, sorted>>
    /\ UNCHANGED <<setupVars, caseVars, restVars>>
    /\ UNCHANGED <<genVars, apiVars, dbVars>>

Pass2Return ==
    /\ pc = "pass2" /\ stack # <<>> /\ Top.i > Len(DepsOf(Top.node))
    /\ result2' = Append(result2, Top.node)
    /\ stack' = Popped
    /\ UNCHANGED <<files, entities, graph, visited, temp, cycles, result, k, pc, sorted>>
    /\ UNCHANGED <<setupVars, caseVars, restVars>>
    /\ UNCHANGED <<genVars, apiVars, dbVars>>

\* result2 returned as it was appended
ReturnedOrderUnreversed(r2) == r2

\* return result2.reverse()
ReturnedOrder(r2) == Reverse(r2)

Pass2End ==
    /\ pc = "pass2" /\ stack = <<>> /\ k > Len(graph)
    /\ sorted' = ReturnedOrder(result2)
    /\ pc' = "sorted"
    /\ UNCHANGED <<files, entities, graph, visited, temp, cycles, result, result2, stack, k>>
    /\ UNCHANGED <<setupVars, caseVars, restVars>>
    /\ UNCHANGED <<genVars, apiVars, dbVars>>

TopoInit ==
    /\ visited = <<>> /\ temp = <<>> /\ cycles = {}
    /\ result = <<>> /\ result2 = <<>> /\ stack = <<>>
    /\ k = 1 /\ sorted = <<>>

TopologicalSort ==
    \/ Pass1Top \/ Pass1Dep \/ Pass1Return \/ Pass1End
    \/ Pass2Top \/ Pass2Dep \/ Pass2Return \/ Pass2End

----------------------------------------------------------------------------
(* The C# mock generator.  A value is null, undefined, or a number, string *)
(* or boolean standing for what a faker call returned; faker's seeded      *)
(* stream is a counter that every faker call advances, Math.random is not  *)
(* seeded and its outcome is free.                                         *)

Null == [kind |-> "null", v |-> 0]

Undefined == [kind |-> "undefined", v |-> 0]

Val(kind, v) == [kind |-> kind, v |-> v]

RngStates == 2

\* faker.seed(parseInt(seed))
FakerSeed(s) == s % RngStates

FakerNext(r) == (r + 1) % RngStates

\* faker.helpers.arrayElement(arr) on a non-empty array
ArrayElement(arr, r) == arr[(r % Len(arr)) + 1]

\* one faker call giving a value of the kind
Drawn(kind, r) == [value |-> Val(kind, r), rng |-> FakerNext(r)]

\* faker.number.int({ min, max })
NumberInt(min, max, r) ==
    [value |-> Val("number", min + (r % (max - min + 1))), rng |-> FakerNext(r)]

EntityNamed(ents, n) == ents[CHOOSE i \in 1..Len(ents) : ents[i].entityName = n]

\* entityInfo.enums[baseType]
HasEnum(entityInfo, baseType) ==
    \E i \in 1..Len(entityInfo.enums) : entityInfo.enums[i].name = baseType

EnumValuesOf(entityInfo, baseType) ==
    entityInfo.enums[CHOOSE i \in 1..Len(entityInfo.enums) :
        /\ entityInfo.enums[i].name = baseType
        /\ \A j \in (i + 1)..Len(entityInfo.enums) :
                entityInfo.enums[j].name # baseType].values

IsNullableType(type) == EndsWith(type, sQuestion)

BaseTypeOf(type) == IF IsNullableType(type) THEN SliceOffLast1(type) ELSE type

\* the name patterns, in the order the source tries them
NameHeuristic(name, entityName, r) ==
    IF name = sFirstName THEN Drawn("string", r)
    ELSE IF name = sLastName THEN Drawn("string", r)
    ELSE IF name = sFullName THEN Drawn("string", FakerNext(r))
    ELSE IF Includes(name, sName) /\ ~Includes(name, sFirst) /\ ~Includes(name, sLast)
    THEN Drawn("string", r)
    ELSE IF Includes(name, sEmail) THEN Drawn("string", r)
    ELSE IF Includes(name, sPhone) THEN Drawn("string", r)
    ELSE IF Includes(name, sAddress) /\ ~Includes(name, sEmail) THEN Drawn("string", r)
    ELSE IF name = sCity THEN Drawn("string", r)
    ELSE IF name = sCountry THEN Drawn("string", r)
    ELSE IF name = sPostalCode \/ name = sZipCode THEN Drawn("string", r)
    ELSE IF Includes(name, sDescription) THEN Drawn("string", r)
    ELSE IF name = sNotes \/ name = sComments THEN Drawn("string", r)
    ELSE IF Includes(name, sPrice) THEN Drawn("number", r)
    ELSE IF Includes(name, sCost) THEN Drawn("number", r)
    ELSE IF Includes(name, sAmount) THEN Drawn("number", r)
    ELSE IF Includes(name, sDiscount) THEN Drawn("number", r)
    ELSE IF Includes(name, sTax) THEN Drawn("number", r)
    ELSE IF Includes(name, sQuantity) \/ Includes(name, sStock) THEN NumberInt(1, 100, r)
    ELSE IF Includes(name, sMin) THEN NumberInt(1, 10, r)
    ELSE IF Includes(name, sMax) THEN NumberInt(50, 200, r)
    ELSE IF StartsWith(name, sIs) \/ StartsWith(name, sHas) \/ StartsWith(name, sRequires)
    THEN Drawn("boolean", r)
    ELSE [value |-> Undefined, rng |-> r]

\* the switch on baseType
TypeFallback(name, baseType, r) ==
    IF baseType = sString THEN Drawn("string", r)
    ELSE IF baseType = sInt \/ baseType = sInt32 THEN NumberInt(1, 1000, r)
    ELSE IF baseType = sLong \/ baseType = sInt64 THEN NumberInt(1, 1000000, r)
    ELSE IF baseType = sDecimalT \/ baseType = sDoubleT \/ baseType = sFloatT
    THEN Drawn("number", r)
    ELSE IF baseType = sBoolT \/ baseType = sBoolean THEN Drawn("boolean", r)
    ELSE IF baseType = sDateTime THEN Drawn("string", r)
    ELSE IF baseType = sGuid THEN Drawn("string", r)
    ELSE Drawn("string", r)

\* generateValueForProperty; roll is the outcome of Math.random() > 0.8
GenerateValueForProperty(prop, entityInfo, r, roll) ==
    LET baseType == BaseTypeOf(prop.type)
    IN IF IsNullableType(prop.type) /\ ~prop.isRequired /\ roll
       THEN [value |-> Null, rng |-> r]
       ELSE IF HasEnum(entityInfo, baseType)
       THEN [value |-> Val("number", ArrayElement(EnumValuesOf(entityInfo, baseType), r).value),
             rng |-> FakerNext(r)]
       ELSE IF prop.name = sId THEN [value |-> Null, rng |-> r]
       ELSE LET byName == NameHeuristic(prop.name, entityInfo.entityName, r)
            IN IF byName.value # Undefined THEN byName
               ELSE TypeFallback(prop.name, baseType, r)

\* generatedEntities as an ordered map from entity name to records
HasRecords(deps, n) == \E i \in 1..Len(deps) : deps[i].name = n

RecordsOf(deps, n) == deps[CHOOSE i \in 1..Len(deps) : deps[i].name = n].records

\* record.Id
IdOf(record) == IF sId \in DOMAIN record THEN record[sId] ELSE Undefined

\* the foreign-key branch is taken: the name ends in Id and the prefix
\* names an entity that has been generated
IsResolvedForeignKey(prop, deps) ==
    EndsWith(prop.name, sId) /\ HasRecords(deps, SliceOffLast2(prop.name))

\* the forEach body without its foreign-key branch
PropertyStepWithoutForeignKeys(prop, entityInfo, entity, r, roll, deps) ==
    IF prop.isNavigation THEN [rec |-> entity, rng |-> r]
    ELSE LET out == GenerateValueForProperty(prop, entityInfo, r, roll)
         IN [rec |-> Put(entity, prop.name, out.value), rng |-> out.rng]

\* the body of entityInfo.properties.forEach in generateMockData
PropertyStep(prop, entityInfo, entity, r, roll, deps) ==
    IF prop.isNavigation THEN [rec |-> entity, rng |-> r]
    ELSE IF IsResolvedForeignKey(prop, deps)
    THEN LET dependencyEntities == RecordsOf(deps, SliceOffLast2(prop.name))
         IN IF Len(dependencyEntities) > 0
            THEN [rec |-> Put(entity, prop.name, IdOf(ArrayElement(dependencyEntities, r))),
                  rng |-> FakerNext(r)]
            ELSE [rec |-> Put(entity, prop.name, Null), rng |-> r]
    ELSE LET out == GenerateValueForProperty(prop, entityInfo, r, roll)
         IN [rec |-> Put(entity, prop.name, out.value), rng |-> out.rng]

CurrentEntity == EntityNamed(entities, sorted[gi])

\* generatedEntities[entityName] = mockData
PutRecords(deps, n, records) ==
    IF HasRecords(deps, n)
    THEN [i \in 1..Len(deps) |-> IF deps[i].name = n
                                 THEN [name |-> n, records |-> records] ELSE deps[i]]
    ELSE Append(deps, [name |-> n, records |-> records])

GenIdle ==
    /\ gi = 1 /\ ri = 0 /\ pi = 1
    /\ rec = <<>> /\ cur = <<>> /\ generated = <<>>
    /\ written = <<>>
    /\ script = [written |-> FALSE, entities |-> <<>>]

\* the for loop over sortedEntities starts
StartGenerating ==
    /\ pc = "sorted"
    /\ pc' = "generate"
    /\ UNCHANGED <<files, entities, graph, topoVars, genVars, apiVars, dbVars>>
    /\ UNCHANGED <<setupVars, caseVars, restVars>>

GenerateProperty ==
    /\ pc \in {"generate", "mock"} /\ gi <= Len(sorted) /\ ri < count
    /\ pi <= Len(CurrentEntity.properties)
    /\ \E roll \in BOOLEAN :
        LET out == PropertyStep(CurrentEntity.properties[pi], CurrentEntity, rec, rng,
                                roll, generated)
        IN rec' = out.rec /\ rng' = out.rng
    /\ pi' = pi + 1
    /\ UNCHANGED <<files, entities, graph, pc, topoVars, apiVars, dbVars>>
    /\ UNCHANGED <<setupVars, caseVars, restVars>>
    /\ UNCHANGED <<seed, count, gi, ri, cur, generated, written, script, run, firstRun>>

\* entities.push(entity)
PushRecord ==
    /\ pc \in {"generate", "mock"} /\ gi <= Len(sorted) /\ ri < count
    /\ pi > Len(CurrentEntity.properties)
    /\ cur' = Append(cur, rec)
    /\ rec' = <<>>
    /\ ri' = ri + 1
    /\ pi' = 1
    /\ UNCHANGED <<files, entities, graph, pc, topoVars, apiVars, dbVars>>
    /\ UNCHANGED <<setupVars, caseVars, restVars>>
    /\ UNCHANGED <<seed, count, rng, gi, generated, written, script, run, firstRun>>

\* the end of a loop iteration seeding the generator again
WriteEntityReseeding ==
    /\ pc = "generate" /\ gi <= Len(sorted) /\ ri >= count
    /\ generated' = PutRecords(generated, sorted[gi], cur)
    /\ written' = Append(written, sorted[gi])
    /\ cur' = <<>>
    /\ ri' = 0
    /\ gi' = gi + 1
    /\ rng' = FakerSeed(seed)
    /\ UNCHANGED <<files, entities, graph, pc, topoVars, apiVars, dbVars>>
    /\ UNCHANGED <<setupVars, caseVars, restVars>>
    /\ UNCHANGED <<seed, count, pi, rec, script, run, firstRun>>

\* generatedEntities[entityName] = mockData; fs.writeFileSync(outputPath, ...)
WriteEntity ==
    /\ pc = "generate" /\ gi <= Len(sorted) /\ ri >= count
    /\ generated' = PutRecords(generated, sorted[gi], cur)
    /\ written' = Append(written, sorted[gi])
    /\ cur' = <<>>
    /\ ri' = 0
    /\ gi' = gi + 1
    /\ UNCHANGED <<files, entities, graph, pc, topoVars, apiVars, dbVars>>
    /\ UNCHANGED <<setupVars, caseVars, restVars>>
    /\ UNCHANGED <<seed, count, rng, pi, rec, script, run, firstRun>>

\* the script written as soon as the loop is entered
WriteImportScriptEarly ==
    /\ pc = "generate"
    /\ script' = [written |-> TRUE, entities |-> sorted]
    /\ pc' = "returned"
    /\ UNCHANGED <<files, entities, graph, topoVars, apiVars, dbVars>>
    /\ UNCHANGED <<setupVars, caseVars, restVars>>
    /\ UNCHANGED <<seed, count, rng, gi, ri, pi, rec, cur, generated, written, run, firstRun>>

\* generateImportScript(sortedEntities, output); return generatedEntities
WriteImportScript ==
    /\ pc = "generate" /\ gi > Len(sorted)
    /\ script' = [written |-> TRUE, entities |-> sorted]
    /\ pc' = "returned"
    /\ UNCHANGED <<files, entities, graph, topoVars, apiVars, dbVars>>
    /\ UNCHANGED <<setupVars, caseVars, restVars>>
    /\ UNCHANGED <<seed, count, rng, gi, ri, pi, rec, cur, generated, written, run, firstRun>>

\* a second, independent run of generateAllEntities with the same options
RunAgain ==
    /\ pc = "returned" /\ run = 1
    /\ firstRun' = generated
    /\ run' = 2
    /\ rng' = FakerSeed(seed)
    /\ gi' = 1 /\ ri' = 0 /\ pi' = 1
    /\ rec' = <<>> /\ cur' = <<>> /\ generated' = <<>>
    /\ written' = <<>>
    /\ script' = [written |-> FALSE, entities |-> <<>>]
    /\ visited' = <<>> /\ temp' = <<>> /\ cycles' = {}
    /\ result' = <<>> /\ result2' = <<>> /\ stack' = <<>>
    /\ k' = 1 /\ sorted' = <<>>
    /\ pc' = "pass1"
    /\ UNCHANGED <<files, entities, graph, seed, count, apiVars, dbVars>>
    /\ UNCHANGED <<setupVars, caseVars, restVars>>

\* return entities, for a caller of generateMockData itself
ReturnMockData ==
    /\ pc = "mock" /\ ri >= count
    /\ pc' = "mockReturned"
    /\ UNCHANGED <<files, entities, graph, topoVars, genVars, apiVars, dbVars>>
    /\ UNCHANGED <<setupVars, caseVars, restVars>>

GenerateAllEntities ==
    \/ TopologicalSort
    \/ StartGenerating \/ GenerateProperty \/ PushRecord \/ WriteEntity
    \/ WriteImportScript \/ RunAgain

----------------------------------------------------------------------------
(* importToApi.  The server holds the items whose POST succeeded and that  *)
(* no DELETE removed; a result's id is the item's number when the response *)
(* body carries a truthy id and 0 when it carries none.                    *)

MaxItems == 3

ApiIdle ==
    /\ apiTransactional = FALSE /\ apiData = <<>> /\ apiNext = 1
    /\ apiResults = <<>> /\ apiErrors = <<>> /\ apiServer = {}
    /\ apiRequests = <<>> /\ apiRb = 1 /\ apiPc = "idle"

\* the POST step throwing on a failure whether transactional or not
ApiPostAlwaysThrows ==
    /\ apiPc = "posting" /\ apiNext <= Len(apiData)
    /\ LET item == apiData[apiNext]
       IN /\ apiRequests' = Append(apiRequests, [method |-> "POST", item |-> item])
          /\ \/ \E id \in {0, item} :
                  /\ apiResults' = Append(apiResults, [success |-> TRUE, id |-> id, item |-> item])
                  /\ apiServer' = apiServer \cup {item}
                  /\ apiNext' = apiNext + 1
                  /\ UNCHANGED <<apiErrors, apiPc>>
             \/ /\ apiErrors' = Append(apiErrors, item)
                /\ apiPc' = "caught" /\ UNCHANGED apiNext
                /\ UNCHANGED <<apiResults, apiServer>>
    /\ UNCHANGED <<apiTransactional, apiData, apiRb>>
    /\ UNCHANGED <<files, entities, graph, pc, topoVars, genVars, dbVars>>
    /\ UNCHANGED <<setupVars, caseVars, restVars>>

\* axios.post(endpoint, item) and the two branches after it
ApiPost ==
    /\ apiPc = "posting" /\ apiNext <= Len(apiData)
    /\ LET item == apiData[apiNext]
       IN /\ apiRequests' = Append(apiRequests, [method |-> "POST", item |-> item])
          /\ \/ \E id \in {0, item} :
                  /\ apiResults' = Append(apiResults, [success |-> TRUE, id |-> id, item |-> item])
                  /\ apiServer' = apiServer \cup {item}
                  /\ apiNext' = apiNext + 1
                  /\ UNCHANGED <<apiErrors, apiPc>>
             \/ /\ apiErrors' = Append(apiErrors, item)
                /\ IF apiTransactional
                   THEN apiPc' = "caught" /\ UNCHANGED apiNext
                   ELSE apiNext' = apiNext + 1 /\ UNCHANGED apiPc
                /\ UNCHANGED <<apiResults, apiServer>>
    /\ UNCHANGED <<apiTransactional, apiData, apiRb>>
    /\ UNCHANGED <<files, entities, graph, pc, topoVars, genVars, dbVars>>
    /\ UNCHANGED <<setupVars, caseVars, restVars>>

\* the value importToApi returns
ApiReturnValue ==
    [success |-> Len(apiErrors) = 0,
     total |-> Len(apiData),
     successful |-> Len(apiResults),
     failed |-> Len(apiErrors)]

ApiReturn ==
    /\ apiPc = "posting" /\ apiNext > Len(apiData)
    /\ apiPc' = "returned"
    /\ UNCHANGED <<apiTransactional, apiData, apiNext, apiResults, apiErrors, apiServer,
                   apiRequests, apiRb>>
    /\ UNCHANGED <<files, entities, graph, pc, topoVars, genVars, dbVars>>
    /\ UNCHANGED <<setupVars, caseVars, restVars>>

\* the outer catch: roll back when transactional and something was imported
ApiCatch ==
    /\ apiPc = "caught"
    /\ apiPc' = IF apiTransactional /\ Len(apiResults) > 0 THEN "rollback" ELSE "threw"
    /\ apiRb' = 1
    /\ UNCHANGED <<apiTransactional, apiData, apiNext, apiResults, apiErrors, apiServer,
                   apiRequests>>
    /\ UNCHANGED <<files, entities, graph, pc, topoVars, genVars, dbVars>>
    /\ UNCHANGED <<setupVars, caseVars, restVars>>

\* one turn of for (const result of results): DELETE only with a truthy id,
\* a failed DELETE is logged and the loop goes on
ApiRollbackStep ==
    /\ apiPc = "rollback" /\ apiRb <= Len(apiResults)
    /\ LET r == apiResults[apiRb]
       IN IF r.id # 0
          THEN /\ apiRequests' = Append(apiRequests, [method |-> "DELETE", item |-> r.id])
               /\ \E deleted \in BOOLEAN :
                    apiServer' = IF deleted THEN apiServer \ {r.id} ELSE apiServer
          ELSE UNCHANGED <<apiRequests, apiServer>>
    /\ apiRb' = apiRb + 1
    /\ UNCHANGED <<apiTransactional, apiData, apiNext, apiResults, apiErrors, apiPc>>
    /\ UNCHANGED <<files, entities, graph, pc, topoVars, genVars, dbVars>>
    /\ UNCHANGED <<setupVars, caseVars, restVars>>

\* throw error
ApiThrow ==
    /\ apiPc = "rollback" /\ apiRb > Len(apiResults)
    /\ apiPc' = "threw"
    /\ UNCHANGED <<apiTransactional, apiData, apiNext, apiResults, apiErrors, apiServer,
                   apiRequests, apiRb>>
    /\ UNCHANGED <<files, entities, graph, pc, topoVars, genVars, dbVars>>
    /\ UNCHANGED <<setupVars, caseVars, restVars>>

ImportToApi == ApiPost \/ ApiReturn \/ ApiCatch \/ ApiRollbackStep \/ ApiThrow

----------------------------------------------------------------------------
(* Database imports: insertData of the MySQL adapter (through              *)
(* withTransaction) and the direct-connection paths of the CLI's import    *)
(* and generate commands.  dbLog is the statements sent to the server,     *)
(* each with whether it succeeded.                                         *)

MaxRows == 3

DbIdle ==
    /\ dbPath = "none" /\ dbTransactional = TRUE /\ dbSkip = FALSE
    /\ dbData = <<>> /\ dbNext = 1 /\ dbLog = <<>> /\ dbPc = "idle"

Stmt(kind, ok) == [stmt |-> kind, ok |-> ok]

\* config.database.transactional !== false; withTransaction asks nobody
UsesTransaction == dbPath = "insertData" \/ dbTransactional

\* connection.beginTransaction() / connection.query('START TRANSACTION')
DbBegin ==
    /\ dbPc = "begin"
    /\ IF UsesTransaction
       THEN \E ok \in BOOLEAN :
              /\ dbLog' = Append(dbLog, Stmt("begin", ok))
              /\ dbPc' = IF ok THEN "inserting"
                         ELSE IF dbPath = "insertData" THEN "rollback" ELSE "failed"
       ELSE dbPc' = "inserting" /\ UNCHANGED dbLog
    /\ UNCHANGED <<dbPath, dbTransactional, dbSkip, dbData, dbNext>>
    /\ UNCHANGED <<files, entities, graph, pc, topoVars, genVars, apiVars>>
    /\ UNCHANGED <<setupVars, caseVars, restVars>>

\* one INSERT and what its catch does: the import command skips a
\* duplicate under the skip strategy, both commands go on to the next item
\* when no transaction is configured
DbInsert ==
    /\ dbPc = "inserting" /\ dbNext <= Len(dbData)
    /\ \E outcome \in {"ok", "duplicate", "error"} :
        /\ dbLog' = Append(dbLog, Stmt("insert", outcome = "ok"))
        /\ IF outcome = "ok" THEN dbNext' = dbNext + 1 /\ UNCHANGED dbPc
           ELSE IF dbPath = "insertData" THEN dbPc' = "rollback" /\ UNCHANGED dbNext
           ELSE IF dbPath = "import" /\ outcome = "duplicate" /\ dbSkip
           THEN dbNext' = dbNext + 1 /\ UNCHANGED dbPc
           ELSE IF dbTransactional THEN dbPc' = "rollback" /\ UNCHANGED dbNext
           ELSE dbNext' = dbNext + 1 /\ UNCHANGED dbPc
    /\ UNCHANGED <<dbPath, dbTransactional, dbSkip, dbData>>
    /\ UNCHANGED <<files, entities, graph, pc, topoVars, genVars, apiVars>>
    /\ UNCHANGED <<setupVars, caseVars, restVars>>

\* connection.commit() / connection.query('COMMIT')
DbCommit ==
    /\ dbPc = "inserting" /\ dbNext > Len(dbData)
    /\ IF UsesTransaction
       THEN \E ok \in BOOLEAN :
              /\ dbLog' = Append(dbLog, Stmt("commit", ok))
              /\ dbPc' = IF ok THEN "done"
                         ELSE IF dbPath = "insertData" THEN "rollback" ELSE "failed"
       ELSE dbPc' = "done" /\ UNCHANGED dbLog
    /\ UNCHANGED <<dbPath, dbTransactional, dbSkip, dbData, dbNext>>
    /\ UNCHANGED <<files, entities, graph, pc, topoVars, genVars, apiVars>>
    /\ UNCHANGED <<setupVars, caseVars, restVars>>

\* connection.rollback() then throw / connection.query('ROLLBACK') then exit
DbRollback ==
    /\ dbPc = "rollback"
    /\ \E ok \in BOOLEAN : dbLog' = Append(dbLog, Stmt("rollback", ok))
    /\ dbPc' = "failed"
    /\ UNCHANGED <<dbPath, dbTransactional, dbSkip, dbData, dbNext>>
    /\ UNCHANGED <<files, entities, graph, pc, topoVars, genVars, apiVars>>
    /\ UNCHANGED <<setupVars, caseVars, restVars>>

ImportToDatabase == DbBegin \/ DbInsert \/ DbCommit \/ DbRollback

----------------------------------------------------------------------------
(* Validation before import: setupData (import of a file, or generation   *)
(* of mock data) and the CLI's import command.  What validateObject finds *)
(* in a record is given per record; the import itself is the records     *)
(* handed over one after the other, any of which may fail.               *)

MaxRecords == 3

SetupIdle ==
    /\ vPath = "none" /\ vSchemaGiven = FALSE /\ vSchemaParses = FALSE
    /\ vItemsValid = <<>> /\ vValidated = "notCalled" /\ vSent = <<>>
    /\ vPc = "idle"

ValidateSchemaAlwaysTrue(itemsValid, schemaParses) == TRUE

\* validateSchema: false when parseSchema throws or some record has errors
ValidateSchema(itemsValid, schemaParses) ==
    schemaParses /\ \A i \in 1..Len(itemsValid) : itemsValid[i]

\* if (options.schemaPath) { isValid = await validateSchema(...) ... }
ValidateBeforeImport ==
    /\ vPc = "start" /\ vPath \in {"setupImport", "cliImport"}
    /\ IF vSchemaGiven
       THEN LET isValid == ValidateSchema(vItemsValid, vSchemaParses)
            IN /\ vValidated' = IF isValid THEN "true" ELSE "false"
               /\ vPc' = IF isValid THEN "import" ELSE "failed"
       ELSE vPc' = "import" /\ UNCHANGED vValidated
    /\ UNCHANGED <<vPath, vSchemaGiven, vSchemaParses, vItemsValid, vSent>>
    /\ UNCHANGED <<files, entities, graph, pc, topoVars, genVars, apiVars, dbVars, caseVars, restVars>>

\* setupData with options.generateMock: generateMockData, then importData
GenerateBeforeImport ==
    /\ vPc = "start" /\ vPath = "setupGenerate"
    /\ vPc' = IF vSchemaGiven /\ vSchemaParses THEN "import" ELSE "failed"
    /\ UNCHANGED <<vPath, vSchemaGiven, vSchemaParses, vItemsValid, vValidated, vSent>>
    /\ UNCHANGED <<files, entities, graph, pc, topoVars, genVars, apiVars, dbVars, caseVars, restVars>>

\* one record goes to the database or the API
SendRecord ==
    /\ vPc = "import" /\ Len(vSent) < Len(vItemsValid)
    /\ vSent' = Append(vSent, Len(vSent) + 1)
    /\ \E ok \in BOOLEAN : vPc' = IF ok THEN "import" ELSE "failed"
    /\ UNCHANGED <<vPath, vSchemaGiven, vSchemaParses, vItemsValid, vValidated>>
    /\ UNCHANGED <<files, entities, graph, pc, topoVars, genVars, apiVars, dbVars, caseVars, restVars>>

ImportDone ==
    /\ vPc = "import" /\ Len(vSent) = Len(vItemsValid)
    /\ vPc' = "done"
    /\ UNCHANGED <<vPath, vSchemaGiven, vSchemaParses, vItemsValid, vValidated, vSent>>
    /\ UNCHANGED <<files, entities, graph, pc, topoVars, genVars, apiVars, dbVars, caseVars, restVars>>

SetupData == ValidateBeforeImport \/ GenerateBeforeImport \/ SendRecord \/ ImportDone

----------------------------------------------------------------------------
(* Case conversion (transformers).  A JSON value is a record with its     *)
(* type t ("null", "number", "object", "array"), a number n and its       *)
(* members kids, each a key and a value (the key of an array member is    *)
(* its index); a thrown TypeError is a value of its own type.             *)

LowerLetters ==
    <<"a", "b", "c", "d", "e", "f", "g", "h", "i", "j", "k", "l", "m",
      "n", "o", "p", "q", "r", "s", "t", "u", "v", "w", "x", "y", "z">>

UpperLetters ==
    <<"A", "B", "C", "D", "E", "F", "G", "H", "I", "J", "K", "L", "M",
      "N", "O", "P", "Q", "R", "S", "T", "U", "V", "W", "X", "Y", "Z">>

IsUpperLetter(ch) == \E i \in 1..26 : UpperLetters[i] = ch

IsLowerLetter(ch) == \E i \in 1..26 : LowerLetters[i] = ch

IsLetter(ch) == IsUpperLetter(ch) \/ IsLowerLetter(ch)

\* \w
IsWordChar(ch) ==
    IsLetter(ch) \/ ch = "_" \/ ch \in {"0", "1", "2", "3", "4", "5", "6", "7", "8", "9"}

ToUpperChar(ch) ==
    IF IsLowerLetter(ch) THEN UpperLetters[CHOOSE i \in 1..26 : LowerLetters[i] = ch] ELSE ch

ToLowerChar(ch) ==
    IF IsUpperLetter(ch) THEN LowerLetters[CHOOSE i \in 1..26 : UpperLetters[i] = ch] ELSE ch

ToLowerCase(str) == [i \in 1..Len(str) |-> ToLowerChar(str[i])]

sLowerId == <<"i", "d">>

\* str.replace(/[-_](\w)/g, (_, c) => c.toUpperCase())
RECURSIVE UpperAfterSeparator(_)
UpperAfterSeparator(str) ==
    IF str = <<>> THEN <<>>
    ELSE IF Head(str) \in {"-", "_"} /\ Len(str) >= 2 /\ IsWordChar(str[2])
    THEN <<ToUpperChar(str[2])>> \o UpperAfterSeparator(SubSeq(str, 3, Len(str)))
    ELSE <<Head(str)>> \o UpperAfterSeparator(Tail(str))

\* str.replace(/^\w/, c => c.toUpperCase())
UpperFirst(str) ==
    IF str # <<>> /\ IsWordChar(Head(str)) THEN <<ToUpperChar(Head(str))>> \o Tail(str)
    ELSE str

RECURSIVE ToPascalCase(_)
ToPascalCase(str) ==
    IF EndsWith(ToLowerCase(str), sLowerId)
    THEN ToPascalCase(SliceOffLast2(str)) \o sId
    ELSE UpperFirst(UpperAfterSeparator(str))

RECURSIVE ToCamelCase(_)
ToCamelCase(str) ==
    IF EndsWith(ToLowerCase(str), sLowerId)
    THEN ToCamelCase(SliceOffLast2(str)) \o sId
    ELSE LET pascal == ToPascalCase(str)
         IN IF pascal = <<>> THEN <<>> ELSE <<ToLowerChar(Head(pascal))>> \o Tail(pascal)

\* str.replace(/([A-Z])/g, sep + '$1')
RECURSIVE SeparateUpper(_, _)
SeparateUpper(str, sep) ==
    IF str = <<>> THEN <<>>
    ELSE (IF IsUpperLetter(Head(str)) THEN <<sep, Head(str)>> ELSE <<Head(str)>>)
         \o SeparateUpper(Tail(str), sep)

\* .replace(/^_/, '') and .replace(/^-/, '')
DropLeading(str, sep) == IF str # <<>> /\ Head(str) = sep THEN Tail(str) ELSE str

\* .replace(/[-\s]/g, '_') and .replace(/[_\s]/g, '-')
ReplaceChars(str, from, to) == [i \in 1..Len(str) |-> IF str[i] \in from THEN to ELSE str[i]]

ToSnakeCase(str) ==
    ReplaceChars(DropLeading(ToLowerCase(SeparateUpper(str, "_")), "_"), {"-", " "}, "_")

ToKebabCase(str) ==
    ReplaceChars(DropLeading(ToLowerCase(SeparateUpper(str, "-")), "-"), {"_", " "}, "-")

sPascal == <<"p", "a", "s", "c", "a", "l">>
sCamel == <<"c", "a", "m", "e", "l">>
sSnake == <<"s", "n", "a", "k", "e">>
sKebab == <<"k", "e", "b", "a", "b">>

\* a caseStyle argument: a string, or something that is not a string
StyleToken(text) == [isString |-> TRUE, text |-> text]

NotAString == [isString |-> FALSE, text |-> <<>>]

\* the switch on caseStyle.toLowerCase()
TransformKey(key, caseStyle) ==
    LET style == ToLowerCase(caseStyle.text)
    IN IF style = sPascal THEN ToPascalCase(key)
       ELSE IF style = sCamel THEN ToCamelCase(key)
       ELSE IF style = sSnake THEN ToSnakeCase(key)
       ELSE IF style = sKebab THEN ToKebabCase(key)
       ELSE key

JsonNull == [t |-> "null", n |-> 0, kids |-> <<>>]

JsonNumber(n) == [t |-> "number", n |-> n, kids |-> <<>>]

Kid(key, val) == [key |-> key, val |-> val]

JsonObject(kids) == [t |-> "object", n |-> 0, kids |-> kids]

IndexKey(i) == <<<<"0", "1", "2", "3", "4", "5", "6", "7", "8", "9">>[i]>>

\* an array of at most ten items; the keys are '0', '1', ...
JsonArray(items) ==
    [t |-> "array", n |-> 0, kids |-> [i \in 1..Len(items) |-> Kid(IndexKey(i), items[i])]]

TypeError == [t |-> "TypeError", n |-> 0, kids |-> <<>>]

\* typeof v === 'object'
TypeofObject(v) == v.t \in {"object", "array", "null"}

\* result[key] = val
PutKid(kids, key, val) ==
    IF \E i \in 1..Len(kids) : kids[i].key = key
    THEN [i \in 1..Len(kids) |-> IF kids[i].key = key THEN Kid(key, val) ELSE kids[i]]
    ELSE Append(kids, Kid(key, val))

RECURSIVE TransformCase(_, _)
RECURSIVE TransformEntries(_, _, _)
RECURSIVE TransformItems(_, _, _)

\* value.map(item => typeof item === 'object' ? transformCase(item, caseStyle) : item)
TransformItems(kids, caseStyle, acc) ==
    IF kids = <<>> THEN JsonArray(acc)
    ELSE LET item == Head(kids).val
             out == IF TypeofObject(item) THEN TransformCase(item, caseStyle) ELSE item
         IN IF out = TypeError THEN TypeError
            ELSE TransformItems(Tail(kids), caseStyle, Append(acc, out))

\* the body of for (const [key, value] of Object.entries(obj))
TransformEntries(kids, caseStyle, acc) ==
    IF kids = <<>> THEN JsonObject(acc)
    ELSE IF ~caseStyle.isString THEN TypeError
    ELSE LET key == Head(kids).key
             value == Head(kids).val
             transformedKey == TransformKey(key, caseStyle)
             out == IF value.t = "object" THEN TransformCase(value, caseStyle)
                    ELSE IF value.t = "array" /\ Len(value.kids) > 0
                            /\ TypeofObject(value.kids[1].val)
                    THEN TransformItems(value.kids, caseStyle, <<>>)
                    ELSE value
         IN IF out = TypeError THEN TypeError
            ELSE TransformEntries(Tail(kids), caseStyle, PutKid(acc, transformedKey, out))

\* transformCase(obj, caseStyle); Object.entries(null) throws
TransformCase(obj, caseStyle) ==
    IF obj.t = "null" THEN TypeError
    ELSE TransformEntries(obj.kids, caseStyle, <<>>)

CaseIdle ==
    /\ cKey = <<>> /\ cStyle = NotAString /\ cValue = JsonNull /\ cOut = JsonNull
    /\ cPc = "idle"

\* transformCase(cValue, cStyle)
TransformCaseCall ==
    /\ cPc = "call"
    /\ cOut' = TransformCase(cValue, cStyle)
    /\ cPc' = IF cOut' = TypeError THEN "threw" ELSE "returned"
    /\ UNCHANGED <<cKey, cStyle, cValue>>
    /\ UNCHANGED <<files, entities, graph, pc, topoVars, genVars, apiVars, dbVars, setupVars, restVars>>

\* toPascalCase(toSnakeCase(cKey)) and toPascalCase(cKey)
RoundTripCall ==
    /\ cPc = "convert"
    /\ cOut' = [snake |-> ToSnakeCase(cKey),
                pascalOfSnake |-> ToPascalCase(ToSnakeCase(cKey)),
                pascal |-> ToPascalCase(cKey)]
    /\ cPc' = "converted"
    /\ UNCHANGED <<cKey, cStyle, cValue>>
    /\ UNCHANGED <<files, entities, graph, pc, topoVars, genVars, apiVars, dbVars, setupVars, restVars>>

\* each of the four conversions applied to cKey once and twice
EachConversionCall ==
    /\ cPc = "convert"
    /\ cOut' = [pascal |-> ToPascalCase(cKey),
                camel |-> ToCamelCase(cKey),
                snake |-> ToSnakeCase(cKey),
                kebab |-> ToKebabCase(cKey),
                pascalTwice |-> ToPascalCase(ToPascalCase(cKey)),
                camelTwice |-> ToCamelCase(ToCamelCase(cKey)),
                snakeTwice |-> ToSnakeCase(ToSnakeCase(cKey)),
                kebabTwice |-> ToKebabCase(ToKebabCase(cKey))]
    /\ cPc' = "convertedEach"
    /\ UNCHANGED <<cKey, cStyle, cValue>>
    /\ UNCHANGED <<files, entities, graph, pc, topoVars, genVars, apiVars, dbVars, setupVars, restVars>>

----------------------------------------------------------------------------
(* withTransaction(connection, operation).  The operation sends its        *)
(* statements one after another; txFails says which awaited call rejects.  *)
(* An error is named after the call that threw it.                         *)

MaxStatements == 3

TxIdle ==
    /\ txFails = [begin |-> FALSE, statements |-> 0, failAt |-> 0,
                  commit |-> FALSE, rollback |-> FALSE]
    /\ txLog = <<>> /\ txThrown = "none" /\ txPc = "idle"

StatementsSent == Cardinality({i \in 1..Len(txLog) : txLog[i] = "query"})

\* await connection.beginTransaction()
TxBegin ==
    /\ txPc = "begin"
    /\ txLog' = Append(txLog, "beginTransaction")
    /\ IF txFails.begin
       THEN txThrown' = "beginTransaction" /\ txPc' = "catch"
       ELSE txPc' = "operation" /\ UNCHANGED txThrown
    /\ UNCHANGED txFails
    /\ UNCHANGED <<files, entities, graph, pc, topoVars, genVars, apiVars, dbVars>>
    /\ UNCHANGED <<setupVars, caseVars, lineVars, schemaVars>>

\* await operation(connection): one statement of the operation
TxStatement ==
    /\ txPc = "operation" /\ StatementsSent < txFails.statements
    /\ txLog' = Append(txLog, "query")
    /\ IF txFails.failAt = StatementsSent + 1
       THEN txThrown' = "query" /\ txPc' = "catch"
       ELSE UNCHANGED <<txThrown, txPc>>
    /\ UNCHANGED txFails
    /\ UNCHANGED <<files, entities, graph, pc, topoVars, genVars, apiVars, dbVars>>
    /\ UNCHANGED <<setupVars, caseVars, lineVars, schemaVars>>

\* await connection.commit(); return result
TxCommit ==
    /\ txPc = "operation" /\ StatementsSent >= txFails.statements
    /\ txLog' = Append(txLog, "commit")
    /\ IF txFails.commit
       THEN txThrown' = "commit" /\ txPc' = "catch"
       ELSE txPc' = "returned" /\ UNCHANGED txThrown
    /\ UNCHANGED txFails
    /\ UNCHANGED <<files, entities, graph, pc, topoVars, genVars, apiVars, dbVars>>
    /\ UNCHANGED <<setupVars, caseVars, lineVars, schemaVars>>

\* catch (error) { await connection.rollback(); throw error; }
TxCatch ==
    /\ txPc = "catch"
    /\ txLog' = Append(txLog, "rollback")
    /\ txThrown' = IF txFails.rollback THEN "rollback" ELSE txThrown
    /\ txPc' = "threw"
    /\ UNCHANGED txFails
    /\ UNCHANGED <<files, entities, graph, pc, topoVars, genVars, apiVars, dbVars>>
    /\ UNCHANGED <<setupVars, caseVars, lineVars, schemaVars>>

WithTransaction == TxBegin \/ TxStatement \/ TxCommit \/ TxCatch

----------------------------------------------------------------------------
(* parseEntityFile's loop over the lines of a file.  A line is given by    *)
(* what the loop tests on it after trim(): whether it starts with `[`,     *)
(* the attributes ATTRIBUTE_REGEX finds in it, whether it includes `get;`  *)
(* and `set;`, the declaration PROPERTY_REGEX finds in it, and whether it  *)
(* is blank or starts a comment.                                           *)

sRequired == "Required"
sMaxLength == "MaxLength"

Attribute(name, parameters) == [name |-> name, parameters |-> parameters]

Line(kind, attrs, decls) == [kind |-> kind, attrs |-> attrs, decls |-> decls]

\* [Required]
RequiredLine == Line("marker", <<Attribute(sRequired, <<>>)>>, <<>>)
\* [MaxLength(5)]
MaxLengthLine == Line("marker", <<Attribute(sMaxLength, <<5>>)>>, <<>>)
\* public int Age { get; set; }
FieldLine == Line("field", <<>>, <<[name |-> <<"A", "g", "e">>, type |-> sInt]>>)
\* public virtual Cat Owner { get; set; }: PROPERTY_REGEX wants the name
\* directly after the one word that follows `public`
VirtualFieldLine == Line("unmatchedField", <<>>, <<>>)
\* [Required] public string Name { get; set; }
MarkedFieldLine ==
    Line("markedField", <<Attribute(sRequired, <<>>)>>, <<[name |-> sName, type |-> sString]>>)
\* // a comment
CommentLine == Line("comment", <<>>, <<>>)
BlankLine == Line("blank", <<>>, <<>>)
\* public void Touch() { }
StatementLine == Line("statement", <<>>, <<>>)

\* line.startsWith('[')
StartsWithBracket(line) == line.kind \in {"marker", "markedField"}

\* [...line.matchAll(ATTRIBUTE_REGEX)]
AttributeMatches(line) == line.attrs

\* line.includes('get;') && line.includes('set;')
IncludesAccessors(line) == line.kind \in {"field", "unmatchedField", "markedField"}

\* [...line.matchAll(PROPERTY_REGEX)]
PropertyMatches(line) == IF line.kind = "unmatchedField" THEN <<>> ELSE line.decls

\* !line.startsWith('//') && !line.startsWith('/*') && line !== ''
IsStatement(line) == line.kind \notin {"comment", "blank"}

\* currentAttributes.some(attr => attr.name === 'Required')
IsRequired(attributes) == \E i \in 1..Len(attributes) : attributes[i].name = sRequired

ExtractMaxLength(attributes) ==
    IF \E i \in 1..Len(attributes) :
            attributes[i].name = sMaxLength /\ Len(attributes[i].parameters) > 0
    THEN LET first == CHOOSE i \in 1..Len(attributes) :
                        /\ attributes[i].name = sMaxLength
                        /\ \A j \in 1..(i - 1) : attributes[j].name # sMaxLength
         IN IF Len(attributes[first].parameters) > 0
            THEN attributes[first].parameters[1] ELSE Null
    ELSE Null

ScannedProperty(decl, attributes) ==
    [name |-> decl.name,
     type |-> decl.type,
     attributes |-> attributes,
     isRequired |-> IsRequired(attributes),
     maxLength |-> ExtractMaxLength(attributes)]

LineIdle ==
    /\ lnLines = <<>> /\ lnI = 1 /\ lnPending = <<>> /\ lnProps = <<>> /\ lnPc = "idle"

\* currentAttributes after a line that includes get; and set;
AccessorsClear(line) == IF PropertyMatches(line) # <<>> THEN <<>> ELSE lnPending

\* one iteration of `for (let i = 0; i < lines.length; i++)`
ScanLine ==
    /\ lnPc = "scan" /\ lnI <= Len(lnLines)
    /\ LET line == lnLines[lnI]
       IN IF StartsWithBracket(line)
          THEN /\ lnPending' = lnPending \o AttributeMatches(line)
               /\ UNCHANGED lnProps
          ELSE IF IncludesAccessors(line)
          THEN /\ lnProps' = lnProps \o
                      [j \in 1..Len(PropertyMatches(line)) |->
                          ScannedProperty(PropertyMatches(line)[j],
                                          IF j = 1 THEN lnPending ELSE <<>>)]
               /\ lnPending' = AccessorsClear(line)
          ELSE IF IsStatement(line)
          THEN lnPending' = <<>> /\ UNCHANGED lnProps
          ELSE UNCHANGED <<lnPending, lnProps>>
    /\ lnI' = lnI + 1
    /\ UNCHANGED <<lnLines, lnPc>>
    /\ UNCHANGED <<files, entities, graph, pc, topoVars, genVars, apiVars, dbVars>>
    /\ UNCHANGED <<setupVars, caseVars, schemaVars, txVars>>

\* the loop ends; properties go on to extractRelationships
ScanEnd ==
    /\ lnPc = "scan" /\ lnI > Len(lnLines)
    /\ lnPc' = "scanned"
    /\ UNCHANGED <<lnLines, lnI, lnPending, lnProps>>
    /\ UNCHANGED <<files, entities, graph, pc, topoVars, genVars, apiVars, dbVars>>
    /\ UNCHANGED <<setupVars, caseVars, schemaVars, txVars>>

ScanLines == ScanLine \/ ScanEnd

----------------------------------------------------------------------------
(* The schema-driven generator (generators/index.js) and validateObject    *)
(* (adapters/mysql.js).  A field definition is a record with every keyword *)
(* the two read; Absent stands for a number keyword the schema does not   *)
(* have, and enum and items are <<>> when absent and hold one value when   *)
(* present.                                                                *)
(* Numbers are counted in hundredths, the precision of the floats faker    *)
(* is asked for.  A faker call returns one of the ends of its range or a   *)
(* value next to the lower end.                                            *)

Absent == -1

Hundredths == 100

fStatus == <<"s", "t", "a", "t", "u", "s">>
fPrice == <<"p", "r", "i", "c", "e">>
fAge == <<"a", "g", "e">>
fTags == <<"t", "a", "g", "s">>
fUserId == <<"u", "s", "e", "r", "I", "d">>
fItem == <<"I", "t", "e", "m">>
fDate == <<"d", "a", "t", "e">>
fQuantity == <<"q", "u", "a", "n", "t", "i", "t", "y">>
fStock == <<"s", "t", "o", "c", "k">>
fRating == <<"r", "a", "t", "i", "n", "g">>
fPercentage == <<"p", "e", "r", "c", "e", "n", "t", "a", "g", "e">>
fLowerId == <<"i", "d">>

Definition(type, minimum, maximum, enum, format, minItems, maxItems, items) ==
    [type |-> type, minimum |-> minimum, maximum |-> maximum, enum |-> enum,
     format |-> format, minItems |-> minItems, maxItems |-> maxItems, items |-> items]

StringValue(text) == [t |-> "string", n |-> 0, s |-> text, kids |-> <<>>]
NumberValue(n) == [t |-> "number", n |-> n, s |-> "", kids |-> <<>>]
BooleanValue(b) == [t |-> "boolean", n |-> IF b THEN 1 ELSE 0, s |-> "", kids |-> <<>>]
ArrayValue(kids) == [t |-> "array", n |-> 0, s |-> "", kids |-> kids]
NullValue == [t |-> "null", n |-> 0, s |-> "", kids |-> <<>>]

\* faker.number.int({ min, max })
FakerInt(min, max) == IF min > max THEN {} ELSE {min, max}

\* faker.number.float({ min, max, precision }), in hundredths
FakerFloat(min, max, step) ==
    IF min > max THEN {}
    ELSE {min * Hundredths, max * Hundredths}
         \cup {v \in {min * Hundredths + step} : v <= max * Hundredths}

sIsoDate == "2024-05-01T10:00:00.000Z"

\* faker.lorem.word()
LoremWords == {"lorem", "ipsum"}

\* generateStringValue: of its name patterns the model has `date`; every
\* other name here falls to the default
GenerateStringValue(fieldName, definition) ==
    IF Includes(ToLowerCase(fieldName), fDate)
    THEN {StringValue(sIsoDate)}
    ELSE {StringValue(w) : w \in LoremWords}

GenerateNumberValue(fieldName, definition) ==
    LET lower == ToLowerCase(fieldName)
        min == IF definition.minimum # Absent THEN definition.minimum ELSE 0
        max == IF definition.maximum # Absent THEN definition.maximum ELSE 1000
    IN IF Includes(lower, fPrice)
       THEN {NumberValue(v) : v \in FakerFloat(min, max, 99)}
       ELSE IF Includes(lower, fQuantity) \/ Includes(lower, fStock)
       THEN {NumberValue(v * Hundredths) : v \in FakerInt(min, max)}
       ELSE IF Includes(lower, fLowerId)
       THEN {NumberValue(v * Hundredths) : v \in FakerInt(1, 1000)}
       ELSE IF Includes(lower, fAge)
       THEN {NumberValue(v * Hundredths) : v \in FakerInt(18, 90)}
       ELSE IF Includes(lower, fRating)
       THEN {NumberValue(v) : v \in FakerFloat(0, 5, 10)}
       ELSE IF Includes(lower, fPercentage)
       THEN {NumberValue(v) : v \in FakerFloat(0, 100, 1)}
       ELSE IF definition.type = "integer"
       THEN {NumberValue(v * Hundredths) : v \in FakerInt(min, max)}
       ELSE {NumberValue(v) : v \in FakerFloat(min, max, 1)}

\* definition.minItems || 0
MinItemsOrDefault(definition) ==
    IF definition.minItems = Absent \/ definition.minItems = 0 THEN 0 ELSE definition.minItems

\* definition.maxItems || 5
MaxItemsOrDefault(definition) ==
    IF definition.maxItems = Absent \/ definition.maxItems = 0 THEN 5 ELSE definition.maxItems

\* the values generateFieldValue can return for a field that is no array
GenerateScalarValue(fieldName, definition) ==
    IF definition.type = "string" THEN GenerateStringValue(fieldName, definition)
    ELSE IF definition.type \in {"number", "integer"}
    THEN GenerateNumberValue(fieldName, definition)
    ELSE IF definition.type = "boolean" THEN {BooleanValue(TRUE), BooleanValue(FALSE)}
    ELSE {NullValue}

\* generateArrayValue; the items of the model's arrays are no arrays
GenerateArrayValue(fieldName, definition) ==
    IF definition.items = <<>> THEN {ArrayValue(<<>>)}
    ELSE LET counts == FakerInt(MinItemsOrDefault(definition), MaxItemsOrDefault(definition))
             elements == GenerateScalarValue(fieldName \o fItem, definition.items[1])
         IN UNION {{ArrayValue(kids) : kids \in [1..c -> elements]} : c \in counts}

GenerateFieldValue(fieldName, definition) ==
    IF definition.type = "array" THEN GenerateArrayValue(fieldName, definition)
    ELSE GenerateScalarValue(fieldName, definition)

\* isNaN(Date.parse(value)) is false
DateParses(text) == text = sIsoDate

\* Number.isInteger(value)
IsInteger(n) == n % Hundredths = 0

\* validateProperty for a value that is no array: the error messages
ValidateScalar(value, schema, propName) ==
    IF schema.type = "string"
    THEN IF value.t # "string" THEN <<"should be a string">>
         ELSE (IF schema.format = "date-time" /\ ~DateParses(value.s)
               THEN <<"should be a valid date-time string">> ELSE <<>>)
              \o (IF schema.enum # <<>> /\ value.s \notin schema.enum[1]
                  THEN <<"should be one of">> ELSE <<>>)
    ELSE IF schema.type \in {"number", "integer"}
    THEN IF value.t # "number" THEN <<"should be a number">>
         ELSE (IF schema.type = "integer" /\ ~IsInteger(value.n)
               THEN <<"should be an integer">> ELSE <<>>)
              \o (IF schema.minimum # Absent /\ value.n < schema.minimum * Hundredths
                  THEN <<"should be at least">> ELSE <<>>)
              \o (IF schema.maximum # Absent /\ value.n > schema.maximum * Hundredths
                  THEN <<"should be at most">> ELSE <<>>)
    ELSE IF schema.type = "boolean"
    THEN IF value.t # "boolean" THEN <<"should be a boolean">> ELSE <<>>
    ELSE <<>>

RECURSIVE ValidateItems(_, _, _)
ValidateItems(kids, schema, propName) ==
    IF kids = <<>> THEN <<>>
    ELSE ValidateScalar(Head(kids), schema, propName) \o ValidateItems(Tail(kids), schema, propName)

ValidateProperty(value, schema, propName) ==
    IF schema.type = "array"
    THEN IF value.t # "array" THEN <<"should be an array">>
         ELSE (IF schema.minItems # Absent /\ Len(value.kids) < schema.minItems
               THEN <<"should have at least">> ELSE <<>>)
              \o (IF schema.maxItems # Absent /\ Len(value.kids) > schema.maxItems
                  THEN <<"should have at most">> ELSE <<>>)
              \o (IF schema.items # <<>>
                  THEN ValidateItems(value.kids, schema.items[1], propName) ELSE <<>>)
    ELSE ValidateScalar(value, schema, propName)

\* an item is a sequence of [field, value] in the order of schema.properties
RECURSIVE ValidateProperties(_, _)
ValidateProperties(item, properties) ==
    IF properties = <<>> THEN <<>>
    ELSE (IF \E i \in 1..Len(item) : item[i].field = Head(properties).field
          THEN LET at == CHOOSE i \in 1..Len(item) : item[i].field = Head(properties).field
               IN ValidateProperty(item[at].value, Head(properties).definition,
                                   Head(properties).field)
          ELSE <<>>)
         \o ValidateProperties(item, Tail(properties))

RECURSIVE MissingRequired(_, _)
MissingRequired(item, required) ==
    IF required = <<>> THEN <<>>
    ELSE (IF \E i \in 1..Len(item) : item[i].field = Head(required)
          THEN <<>> ELSE <<"Missing required field">>)
         \o MissingRequired(item, Tail(required))

ValidateObject(item, schema) ==
    MissingRequired(item, schema.required) \o ValidateProperties(item, schema.properties)

SchemaIdle ==
    /\ scSchema = [properties |-> <<>>, required |-> <<>>]
    /\ scItem = <<>> /\ scErrors = <<>> /\ scPc = "idle"

\* generateMockItem: one field per step, in the order of schema.properties
GenerateField ==
    /\ scPc = "generate" /\ Len(scItem) < Len(scSchema.properties)
    /\ LET property == scSchema.properties[Len(scItem) + 1]
       IN \E value \in GenerateFieldValue(property.field, property.definition) :
            scItem' = Append(scItem, [field |-> property.field, value |-> value])
    /\ UNCHANGED <<scSchema, scErrors, scPc>>
    /\ UNCHANGED <<files, entities, graph, pc, topoVars, genVars, apiVars, dbVars>>
    /\ UNCHANGED <<setupVars, caseVars, lineVars, txVars>>

\* return item
ReturnItem ==
    /\ scPc = "generate" /\ Len(scItem) >= Len(scSchema.properties)
    /\ scPc' = "generated"
    /\ UNCHANGED <<scSchema, scItem, scErrors>>
    /\ UNCHANGED <<files, entities, graph, pc, topoVars, genVars, apiVars, dbVars>>
    /\ UNCHANGED <<setupVars, caseVars, lineVars, txVars>>

\* validateObject(item, schema) on the generated record
ValidateGenerated ==
    /\ scPc = "generated"
    /\ scErrors' = ValidateObject(scItem, scSchema)
    /\ scPc' = "validated"
    /\ UNCHANGED <<scSchema, scItem>>
    /\ UNCHANGED <<files, entities, graph, pc, topoVars, genVars, apiVars, dbVars>>
    /\ UNCHANGED <<setupVars, caseVars, lineVars, txVars>>

GenerateAndValidate == GenerateField \/ ReturnItem \/ ValidateGenerated

RestIdle == LineIdle /\ SchemaIdle /\ TxIdle

----------------------------------------------------------------------------
(* The resolver on its own: every directory of three classes whose         *)
(* properties are int properties named Id, CatId, DogId or TagsId, at most *)
(* MaxEdges of them in all.  Id gives the dependency '' (slice(0, -2) of   *)
(* 'Id'), which names no entity.                                           *)

MaxEdges == 4

IntDecl(n) == [name |-> n, type |-> sInt, required |-> FALSE]

TopoDecls == {IntDecl(sId), IntDecl(sCatId), IntDecl(sDogId), IntDecl(sTagsId)}

PlainFile(className, decls) == [className |-> className, decls |-> decls, enums |-> <<>>]

vars == <<files, entities, graph, pc, topoVars, genVars, apiVars, dbVars, setupVars,
         caseVars, restVars>>

InitTopo ==
    /\ \E la \in 0..MaxEdges : \E lb \in 0..(MaxEdges - la) :
       \E lc \in 0..(MaxEdges - la - lb) :
       \E a \in [1..la -> TopoDecls], b \in [1..lb -> TopoDecls], c \in [1..lc -> TopoDecls] :
            files = <<PlainFile(sCat, a), PlainFile(sDog, b), PlainFile(sTags, c)>>
    /\ entities = ParseEntityDirectory(files)
    /\ graph = BuildDependencyGraph(entities)
    /\ TopoInit
    /\ pc = "pass1"
    /\ seed = 0 /\ count = 0 /\ rng = 0 /\ run = 1 /\ firstRun = <<>>
    /\ GenIdle /\ ApiIdle /\ DbIdle /\ SetupIdle /\ CaseIdle /\ RestIdle

NextTopo == TopologicalSort

SpecTopo == InitTopo /\ [][NextTopo]_vars

SpecTopoFair == SpecTopo /\ WF_vars(NextTopo)

----------------------------------------------------------------------------
(* Generation: directories of the two files Cat.cs and Tags.cs.  Each      *)
(* declares enum Tag { Admin, Manager = 1, Pharmacist = 2 } and            *)
(* enum Dog { Admin, , Manager = 5, Pharmacist }; Tag is a prefix of the   *)
(* class name Tags.  The properties come from GenDecls, at most MaxProps   *)
(* in all, or the directory is the parent and child pair of ExampleDir.    *)
(* generateAllEntities runs twice with the same options; generateMockData  *)
(* is also called on its own, with dependencies the caller supplies.       *)

MaxProps == 2

MaxCount == 1

Decl(n, t, required) == [name |-> n, type |-> t, required |-> required]

Member(n) == [name |-> n, explicit |-> FALSE, value |-> 0]

MemberWithValue(n, v) == [name |-> n, explicit |-> TRUE, value |-> v]

EnumTag == [name |-> sTag,
            body |-> <<Member(sAdmin), MemberWithValue(sManager, 1),
                       MemberWithValue(sPharmacist, 2)>>]

EnumDog == [name |-> sDog,
            body |-> <<Member(sAdmin), Member(sEmpty), MemberWithValue(sManager, 5),
                       Member(sPharmacist)>>]

GenDecls ==
    {Decl(sId, sInt, TRUE), Decl(sId, sDog, FALSE), Decl(sName, sStringQ, FALSE),
     Decl(sCatId, sInt, FALSE), Decl(sTagsId, sTag, FALSE),
     Decl(sTagsId, sIntQ, TRUE), Decl(sName, sTag, TRUE)}

EnumFile(className, decls) ==
    [className |-> className, decls |-> decls, enums |-> <<EnumTag, EnumDog>>]

\* Cat {Id, Name} is the parent, Tags {Id, Name, CatId:int} the child
ExampleDir ==
    <<EnumFile(sCat, <<Decl(sId, sInt, FALSE), Decl(sName, sString, TRUE)>>),
      EnumFile(sTags, <<Decl(sId, sInt, FALSE), Decl(sName, sString, TRUE),
                        Decl(sCatId, sInt, FALSE)>>)>>

GenDirsOfSize(la, lb) ==
    {<<EnumFile(sCat, a), EnumFile(sTags, b)>> :
        a \in [1..la -> GenDecls], b \in [1..lb -> GenDecls]}

GenDirs ==
    UNION {UNION {GenDirsOfSize(la, lb) : lb \in 0..(MaxProps - la)} : la \in 0..MaxProps}

\* generateAllEntities({ input, seed, count })
InitRun ==
    /\ files \in GenDirs \cup {ExampleDir}
    /\ entities = ParseEntityDirectory(files)
    /\ graph = BuildDependencyGraph(entities)
    /\ TopoInit
    /\ pc = "pass1"
    /\ seed \in 0..(RngStates - 1) /\ rng = FakerSeed(seed)
    /\ count \in 0..MaxCount
    /\ run = 1 /\ firstRun = <<>>
    /\ GenIdle /\ ApiIdle /\ DbIdle /\ SetupIdle /\ CaseIdle /\ RestIdle

IdRecord(v) == (sId :> Val("number", v))

\* what a caller of generateMockData passes as dependencies
MockDependencies ==
    {<<>>,
     <<[name |-> sTags, records |-> <<>>]>>,
     <<[name |-> sTags, records |-> <<IdRecord(7), IdRecord(8)>>]>>}

\* generateMockData(entityInfo, count, dependencies) for the entity of Cat.cs
InitMock ==
    /\ files \in {d \in GenDirs : d[2].decls = <<>>}
    /\ entities = ParseEntityDirectory(files)
    /\ graph = BuildDependencyGraph(entities)
    /\ visited = <<>> /\ temp = <<>> /\ cycles = {}
    /\ result = <<>> /\ result2 = <<>> /\ stack = <<>>
    /\ k = 1 /\ sorted = <<sCat>>
    /\ pc = "mock"
    /\ seed = 0 /\ rng \in 0..(RngStates - 1)
    /\ count \in 0..MaxCount
    /\ run = 1 /\ firstRun = <<>>
    /\ gi = 1 /\ ri = 0 /\ pi = 1
    /\ rec = <<>> /\ cur = <<>>
    /\ generated \in MockDependencies
    /\ written = <<>>
    /\ script = [written |-> FALSE, entities |-> <<>>]
    /\ ApiIdle /\ DbIdle /\ SetupIdle /\ CaseIdle /\ RestIdle

InitGen == InitRun \/ InitMock

NextGen == GenerateAllEntities \/ ReturnMockData

SpecGen == InitGen /\ [][NextGen]_vars

----------------------------------------------------------------------------
(* One call of importToApi with a batch of up to MaxItems items. *)

NoRun ==
    /\ files = <<>> /\ entities = <<>> /\ graph = <<>>
    /\ TopoInit
    /\ pc = "idle"
    /\ seed = 0 /\ count = 0 /\ rng = 0 /\ run = 1 /\ firstRun = <<>>
    /\ GenIdle

InitApi ==
    /\ NoRun /\ DbIdle /\ SetupIdle /\ CaseIdle /\ RestIdle
    /\ apiTransactional \in BOOLEAN
    /\ \E n \in 0..MaxItems : apiData = [i \in 1..n |-> i]
    /\ apiNext = 1
    /\ apiResults = <<>> /\ apiErrors = <<>> /\ apiServer = {}
    /\ apiRequests = <<>> /\ apiRb = 1
    /\ apiPc = "posting"

NextApi == ImportToApi

SpecApi == InitApi /\ [][NextApi]_vars

----------------------------------------------------------------------------
(* One database import of up to MaxRows rows on one of the three paths. *)

InitDb ==
    /\ NoRun /\ ApiIdle /\ SetupIdle /\ CaseIdle /\ RestIdle
    /\ dbPath \in {"insertData", "import", "generate"}
    /\ dbTransactional \in BOOLEAN
    /\ dbSkip \in BOOLEAN
    /\ \E n \in 0..MaxRows : dbData = [i \in 1..n |-> i]
    /\ dbNext = 1 /\ dbLog = <<>>
    /\ dbPc = "begin"

NextDb == ImportToDatabase

SpecDb == InitDb /\ [][NextDb]_vars

----------------------------------------------------------------------------
(* Parsing a directory in which files may fail: Cat.cs, Dog.cs and        *)
(* Tags.cs, each either without a class declaration or holding its class  *)
(* with at most one of the int properties of TopoDecls; the parse is      *)
(* followed by the sort.                                                  *)

BrokenFile == [className |-> sEmpty, decls |-> <<>>, enums |-> <<>>]

FilesFor(className) ==
    {BrokenFile} \cup {PlainFile(className, d) : d \in [1..0 -> TopoDecls] \cup [1..1 -> TopoDecls]}

\* const entities = parseEntityDirectory(directory); buildDependencyGraph
ParseDirectory ==
    /\ pc = "parse"
    /\ entities' = ParseEntityDirectory(files)
    /\ graph' = BuildDependencyGraph(entities')
    /\ pc' = "pass1"
    /\ UNCHANGED <<files, topoVars, genVars, apiVars, dbVars, setupVars, caseVars, restVars>>

InitParse ==
    /\ \E a \in FilesFor(sCat), b \in FilesFor(sDog), c \in FilesFor(sTags) :
            files = <<a, b, c>>
    /\ entities = <<>> /\ graph = <<>>
    /\ TopoInit
    /\ pc = "parse"
    /\ seed = 0 /\ count = 0 /\ rng = 0 /\ run = 1 /\ firstRun = <<>>
    /\ GenIdle /\ ApiIdle /\ DbIdle /\ SetupIdle /\ CaseIdle /\ RestIdle

NextParse == ParseDirectory \/ TopologicalSort

SpecParse == InitParse /\ [][NextParse]_vars

----------------------------------------------------------------------------
(* One setupData or CLI import of up to MaxRecords records. *)

InitSetup ==
    /\ NoRun /\ ApiIdle /\ DbIdle /\ CaseIdle /\ RestIdle
    /\ vPath \in {"setupImport", "setupGenerate", "cliImport"}
    /\ vSchemaGiven \in BOOLEAN
    /\ vSchemaParses \in BOOLEAN
    /\ \E n \in 0..MaxRecords : vItemsValid \in [1..n -> BOOLEAN]
    /\ vValidated = "notCalled" /\ vSent = <<>>
    /\ vPc = "start"

NextSetup == SetupData

SpecSetup == InitSetup /\ [][NextSetup]_vars

----------------------------------------------------------------------------
(* Calls of the case conversions: transformCase on a one-key object for   *)
(* every key of up to MaxKeyLen characters of KeyChars, transformCase on  *)
(* nested values, and the round trip through toSnakeCase.                 *)

MaxKeyLen == 4

KeyChars == {"a", "d", "i", "D", "I", "_", "-"}

Keys == UNION {[1..n -> KeyChars] : n \in 0..MaxKeyLen}

sNone == <<"n", "o", "n", "e">>

CaseStyles ==
    {StyleToken(sPascal), StyleToken(sCamel), StyleToken(sSnake), StyleToken(sKebab),
     StyleToken(sNone), NotAString}

UpTo2(S) == {<<>>} \cup {<<x>> : x \in S} \cup {<<x, y>> : x \in S, y \in S}

Scalars == {JsonNull, JsonNumber(1)}

sA == <<"a">>

\* arrays and one-key objects over S
Composites(S) ==
    {JsonArray(items) : items \in UpTo2(S)}
        \cup {JsonObject(<<>>)}
        \cup {JsonObject(<<Kid(key, v)>>) : key \in {sA, sCatId}, v \in S}

Nested1 == Scalars \cup Composites(Scalars)

Nested2 == Nested1 \cup Composites(Nested1)

\* the objects given to transformCase
\* keys that differ in case or separator only
PairKeys == {<<"a">>, <<"A">>, <<"a", "D">>, <<"a", "_", "d">>, <<"a", "-", "d">>}

CaseObjects ==
    {JsonObject(<<Kid(sA, v)>>) : v \in Nested2}
        \cup {JsonObject(<<Kid(sA, v), Kid(sCatId, w)>>) : v \in Nested1, w \in Scalars}
        \cup {JsonObject(<<Kid(pair[1], JsonNumber(1)), Kid(pair[2], JsonNumber(2))>>) :
                    pair \in {q \in PairKeys \X PairKeys : q[1] # q[2]}}

InitCase ==
    /\ NoRun /\ ApiIdle /\ DbIdle /\ SetupIdle /\ RestIdle
    /\ cStyle \in CaseStyles
    /\ \/ /\ cKey \in Keys
          /\ cValue = JsonObject(<<Kid(cKey, JsonNumber(1))>>)
          /\ cPc \in {"call", "convert"}
       \/ /\ cKey = <<>>
          /\ cValue \in CaseObjects
          /\ cPc = "call"
    /\ cOut = JsonNull

NextCase == TransformCaseCall \/ RoundTripCall \/ EachConversionCall

SpecCase == InitCase /\ [][NextCase]_vars

----------------------------------------------------------------------------
(* The line loop on its own: every file of MaxLines lines, each one of the *)
(* eight lines above.                                                      *)

MaxLines == 4

FileLines ==
    {RequiredLine, MaxLengthLine, FieldLine, VirtualFieldLine, MarkedFieldLine,
     CommentLine, BlankLine, StatementLine}

InitLines ==
    /\ lnLines \in [1..MaxLines -> FileLines]
    /\ lnI = 1 /\ lnPending = <<>> /\ lnProps = <<>> /\ lnPc = "scan"
    /\ NoRun /\ ApiIdle /\ DbIdle /\ SetupIdle /\ CaseIdle /\ SchemaIdle /\ TxIdle

NextLines == ScanLines

SpecLines == InitLines /\ [][NextLines]_vars

----------------------------------------------------------------------------
(* withTransaction on its own: operations of up to MaxStatements           *)
(* statements, and every choice of the calls that reject.                  *)

InitTx ==
    /\ \E n \in 0..MaxStatements : \E at \in 0..n : \E b, c, r \in BOOLEAN :
          txFails = [begin |-> b, statements |-> n, failAt |-> at,
                     commit |-> c, rollback |-> r]
    /\ txLog = <<>> /\ txThrown = "none" /\ txPc = "begin"
    /\ NoRun /\ ApiIdle /\ DbIdle /\ SetupIdle /\ CaseIdle /\ LineIdle /\ SchemaIdle

NextTx == WithTransaction

SpecTx == InitTx /\ [][NextTx]_vars

----------------------------------------------------------------------------
(* The schema generator and the validator: schemas of up to MaxFields      *)
(* fields with distinct names.                                             *)

MaxFields == 2

MaxDeclaredItems == 2

fActive == <<"a", "c", "t", "i", "v", "e">>

NoEnum == <<>>

Scalar(type, minimum, maximum, enum, format) ==
    Definition(type, minimum, maximum, enum, format, Absent, Absent, <<>>)

Property(field, definition) == [field |-> field, definition |-> definition]

StringProperties ==
    {Property(f, Scalar("string", Absent, Absent, e, fmt)) :
        f \in {fStatus, fDate},
        e \in {NoEnum, <<{"lorem"}>>, <<{"active", "lorem"}>>},
        fmt \in {"none", "date-time"}}

NumberProperties ==
    {Property(f, Scalar(t, lo, hi, NoEnum, "none")) :
        f \in {fPrice, fAge, fUserId, fQuantity},
        t \in {"integer", "number"},
        lo \in {Absent, 1}, hi \in {Absent, 3}}

OtherProperties ==
    {Property(fActive, Scalar("boolean", Absent, Absent, NoEnum, "none")),
     Property(fStatus, Scalar("uuid", Absent, Absent, NoEnum, "none"))}

ArrayProperties(most) ==
    {Property(fTags, Definition("array", Absent, Absent, NoEnum, "none",
                                bounds[1], bounds[2], items)) :
        bounds \in {b \in ({Absent} \cup 0..most) \X ({Absent} \cup 0..most) :
                        b[2] = Absent \/ b[1] <= b[2]},
        items \in {<<>>, <<Scalar("string", Absent, Absent, NoEnum, "none")>>}}

InitSchema ==
    /\ \E n \in 1..MaxFields :
       \E properties \in [1..n -> StringProperties \cup NumberProperties
                                  \cup OtherProperties \cup ArrayProperties(MaxDeclaredItems)] :
       \E required \in {<<>>, <<properties[1].field>>} :
          /\ \A i, j \in 1..n : properties[i].field = properties[j].field => i = j
          /\ scSchema = [properties |-> properties, required |-> required]
    /\ scItem = <<>> /\ scErrors = <<>> /\ scPc = "generate"
    /\ NoRun /\ ApiIdle /\ DbIdle /\ SetupIdle /\ CaseIdle /\ LineIdle /\ TxIdle

NextSchema == GenerateAndValidate

SpecSchema == InitSchema /\ [][NextSchema]_vars

----------------------------------------------------------------------------
(* Navigation properties: Cat.cs with at most one and Tags.cs with at most *)
(* MaxNavProps of the declarations                                         *)
(*   public Cat Owner, public Tag Kind, public List<string> Labels,        *)
(*   public List<Cat> Cats, public int CatId, public string Name;          *)
(* the parse is followed by the sort.                                      *)

MaxNavProps == 2

sListString == <<"L", "i", "s", "t", "<", "s", "t", "r", "i", "n", "g", ">">>
sOwner == <<"O", "w", "n", "e", "r">>
sKind == <<"K", "i", "n", "d">>
sLabels == <<"L", "a", "b", "e", "l", "s">>

NavDecl(n, t) == [name |-> n, type |-> t, required |-> FALSE]

NavDecls ==
    {NavDecl(sOwner, sCat), NavDecl(sKind, sTag), NavDecl(sLabels, sListString),
     NavDecl(sCats, sListCat), NavDecl(sCatId, sInt), NavDecl(sName, sString)}

InitNav ==
    /\ \E la \in 0..1 : \E lb \in 0..MaxNavProps :
       \E a \in [1..la -> NavDecls], b \in [1..lb -> NavDecls] :
            files = <<PlainFile(sCat, a), PlainFile(sTags, b)>>
    /\ entities = <<>> /\ graph = <<>>
    /\ TopoInit
    /\ pc = "parse"
    /\ seed = 0 /\ count = 0 /\ rng = 0 /\ run = 1 /\ firstRun = <<>>
    /\ GenIdle /\ ApiIdle /\ DbIdle /\ SetupIdle /\ CaseIdle /\ RestIdle

NextNav == ParseDirectory \/ TopologicalSort

SpecNav == InitNav /\ [][NextNav]_vars

----------------------------------------------------------------------------
(* Claims about the resolver *)

PositionIn(seq, x) == IndexOf(seq, x)

Occurrences(seq, x) == Cardinality({i \in 1..Len(seq) : seq[i] = x})

\* C1: in the returned order every many-to-one target B of A (A # B, B an
\* entity of the graph, B not marked a cycle member) stands strictly before A
C1_DependencyPrecedesDependent ==
    pc = "sorted" =>
        \A a \in 1..Len(graph) :
            \A d \in 1..Len(graph[a].dependencies) :
                LET A == graph[a].name
                    B == graph[a].dependencies[d]
                IN (A # B /\ InGraph(B) /\ B \notin cycles)
                        => PositionIn(sorted, B) < PositionIn(sorted, A)

\* C3: the returned sequence holds every entity name of the graph exactly
\* once and no other name
C3_EveryEntityExactlyOnce ==
    pc = "sorted" =>
        /\ \A i \in 1..Len(graph) : Occurrences(sorted, graph[i].name) = 1
        /\ \A i \in 1..Len(sorted) : InGraph(sorted[i])

HasSelfDependency == \E i \in 1..Len(graph) :
    \E d \in 1..Len(graph[i].dependencies) : graph[i].dependencies[d] = graph[i].name

HasMissingDependency == \E i \in 1..Len(graph) :
    \E d \in 1..Len(graph[i].dependencies) : ~InGraph(graph[i].dependencies[d])

HasRepeatedDependency == \E i \in 1..Len(graph) :
    \E d, e \in 1..Len(graph[i].dependencies) :
        d # e /\ graph[i].dependencies[d] = graph[i].dependencies[e]

C3_Witness ==
    /\ pc = "sorted" /\ Len(sorted) = 3
    /\ cycles # {} /\ HasSelfDependency /\ HasMissingDependency /\ HasRepeatedDependency

\* the mutual dependency X -> Y -> X (Cat -> Dog -> Cat)
MutualDependency ==
    /\ graph[1].dependencies = <<sDog>>
    /\ graph[2].dependencies = <<sCat>>

\* C4: topologicalSort terminates on every graph, and for X -> Y -> X it
\* returns X and Y exactly once each
C4_Terminates ==
    <>(/\ pc = "sorted"
       /\ MutualDependency =>
            Occurrences(sorted, sCat) = 1 /\ Occurrences(sorted, sDog) = 1)

C4_Witness ==
    /\ pc = "sorted" /\ MutualDependency /\ cycles = {sCat}
    /\ Occurrences(sorted, sCat) = 1 /\ Occurrences(sorted, sDog) = 1

----------------------------------------------------------------------------
(* Claims about generation *)

Range(seq) == {seq[i] : i \in 1..Len(seq)}

\* the records of entity n that the finished run returned
ReturnedRecords(n) == IF HasRecords(generated, n) THEN RecordsOf(generated, n) ELSE <<>>

\* the finished and the unfinished records of the entity being generated
RecordsInHand == Range(cur) \cup (IF rec = <<>> THEN {} ELSE {rec})

Generating == pc \in {"generate", "mock"} /\ gi <= Len(sorted)

\* C2: after a run over an acyclic graph every parent B of a child A stands
\* before A in the resolved order, and the field BId of every record of A
\* holds the Id of one of the records generated for B in that run
C2_ParentBeforeChild ==
    (pc = "returned" /\ cycles = {}) =>
        \A a \in 1..Len(graph) :
            \A d \in 1..Len(graph[a].dependencies) :
                LET A == graph[a].name
                    B == graph[a].dependencies[d]
                IN (InGraph(B) /\ B # A) =>
                    /\ PositionIn(sorted, B) < PositionIn(sorted, A)
                    /\ \A r \in Range(ReturnedRecords(A)) :
                        /\ (B \o sId) \in DOMAIN r
                        /\ \E q \in Range(ReturnedRecords(B)) : r[B \o sId] = IdOf(q)

\* C5: the second run with the same seed, entities and count returns the
\* records the first run returned
C5_SameSeedSameRecords ==
    (pc = "returned" /\ run = 2) => generated = firstRun

\* C6: a field named <P>Id of a record under generation, P generated
\* before, is null or the Id of one of P's records, and null when P has no
\* records
C6_ForeignKeyFromParent ==
    Generating =>
        \A r \in RecordsInHand :
            \A f \in DOMAIN r :
                (EndsWith(f, sId) /\ HasRecords(generated, SliceOffLast2(f))) =>
                    LET parents == RecordsOf(generated, SliceOffLast2(f))
                    IN /\ r[f] = Null \/ \E q \in Range(parents) : r[f] = IdOf(q)
                       /\ parents = <<>> => r[f] = Null

\* a child record of the run holds the non-null Id of a parent record
C6_Witness ==
    /\ pc = "generate" /\ gi <= Len(sorted) /\ sorted[gi] = sCat /\ cur # <<>>
    /\ HasRecords(generated, sTags)
    /\ sTagsId \in DOMAIN cur[1]
    /\ cur[1][sTagsId].kind = "number"
    /\ \E q \in Range(RecordsOf(generated, sTags)) : cur[1][sTagsId] = IdOf(q)

\* generateMockData returned a record whose parent set was empty
C6_EmptyParentSet ==
    /\ pc = "mockReturned" /\ cur # <<>>
    /\ HasRecords(generated, sTags) /\ RecordsOf(generated, sTags) = <<>>
    /\ sTagsId \in DOMAIN cur[1] /\ cur[1][sTagsId] = Null

\* C7: every finished record holds, for every required property of its
\* entity, a value that is neither null nor undefined
C7_RequiredNeverNull ==
    Generating =>
        \A r \in Range(cur) :
            \A i \in 1..Len(CurrentEntity.properties) :
                LET prop == CurrentEntity.properties[i]
                IN prop.isRequired =>
                    /\ prop.name \in DOMAIN r
                    /\ r[prop.name] # Null /\ r[prop.name] # Undefined

\* C8: every finished record holds, for every property whose type is an
\* enum of the entity's file, the value of one of that enum's members
C8_EnumMemberValue ==
    Generating =>
        \A r \in Range(cur) :
            \A i \in 1..Len(CurrentEntity.properties) :
                LET prop == CurrentEntity.properties[i]
                IN HasEnum(CurrentEntity, prop.type) =>
                    /\ prop.name \in DOMAIN r
                    /\ r[prop.name].kind = "number"
                    /\ \E m \in Range(EnumValuesOf(CurrentEntity, prop.type)) :
                            r[prop.name].v = m.value

----------------------------------------------------------------------------
(* Claims about imports *)

\* C9: when a transactional importToApi has ended after a failed POST, it
\* has thrown, the failed POST was the last one sent, and none of the
\* items is left on the server
C9_AllOrNothing ==
    (apiTransactional /\ apiPc \in {"returned", "threw"} /\ apiErrors # <<>>) =>
        /\ apiPc = "threw"
        /\ Len(apiErrors) = 1
        /\ Cardinality({i \in 1..Len(apiRequests) : apiRequests[i].method = "POST"})
                = Len(apiResults) + 1
        /\ apiServer = {}

\* C11: a non-transactional importToApi never enters its catch block or
\* its rollback and never throws; when it has returned, the requests sent
\* are one POST per item in input order and no DELETE, successful + failed
\* = total, and success is true exactly when failed = 0
C11_NoRollbackWithoutTransactional ==
    (~apiTransactional /\ apiPc # "idle") =>
        /\ apiPc \in {"posting", "returned"}
        /\ \A i \in 1..Len(apiRequests) :
                apiRequests[i] = [method |-> "POST", item |-> apiData[i]]
        /\ apiPc = "returned" =>
            /\ Len(apiRequests) = Len(apiData)
            /\ ApiReturnValue.successful + ApiReturnValue.failed = ApiReturnValue.total
            /\ ApiReturnValue.success <=> (ApiReturnValue.failed = 0)

\* a non-transactional import returned after a failure in the middle
C11_Witness ==
    /\ ~apiTransactional /\ apiPc = "returned"
    /\ Len(apiData) = 3 /\ apiErrors = <<2>>
    /\ Len(apiResults) = 2
    /\ ~ApiReturnValue.success

\* C10: when a database import has ended, its inserts stand between a
\* transaction start and exactly one commit or rollback, a commit was sent
\* only if every insert succeeded, and after a failed insert a rollback
\* and no commit was sent
C10_AlwaysTransactional ==
    LET ends == {i \in 1..Len(dbLog) : dbLog[i].stmt \in {"commit", "rollback"}}
        inserts == {i \in 1..Len(dbLog) : dbLog[i].stmt = "insert"}
        failedInserts == {i \in inserts : ~dbLog[i].ok}
        commits == {i \in 1..Len(dbLog) : dbLog[i].stmt = "commit"}
        rollbacks == {i \in 1..Len(dbLog) : dbLog[i].stmt = "rollback"}
    IN (dbPc \in {"done", "failed"} /\ inserts # {}) =>
        /\ dbLog[1].stmt = "begin"
        /\ Cardinality(ends) = 1
        /\ \A i \in inserts : \A e \in ends : i < e
        /\ commits # {} => failedInserts = {}
        /\ failedInserts # {} => (rollbacks # {} /\ commits = {})

----------------------------------------------------------------------------
(* Claims about parsing and case conversion *)

\* C13: the mapping parseEntityDirectory returns holds, in directory
\* order, exactly the entities of the files that have a class declaration
C13_FailingFileSkipped ==
    pc \notin {"parse", "idle"} =>
        LET parsed == SelectSeq(files, HasClassDeclaration)
        IN /\ Len(entities) = Len(parsed)
           /\ \A i \in 1..Len(parsed) : entities[i] = ParseEntityFile(parsed[i])

\* the second of three files failed and the sort ran over the other two
C13_Witness ==
    /\ pc = "sorted"
    /\ HasClassDeclaration(files[1]) /\ ~HasClassDeclaration(files[2])
    /\ HasClassDeclaration(files[3])
    /\ Len(entities) = 2
    /\ entities[1].entityName = sCat /\ entities[2].entityName = sTags
    /\ Len(sorted) = 2

RecognisedStyles ==
    {StyleToken(sPascal), StyleToken(sCamel), StyleToken(sSnake), StyleToken(sKebab)}

\* C14: for each of the four styles, transformCase on {key: 1} with a key
\* whose lower-cased form ends in id returns the one key made of the
\* recased prefix followed by Id
C14_IdSuffixInEveryStyle ==
    (/\ cPc = "returned"
     /\ cValue = JsonObject(<<Kid(cKey, JsonNumber(1))>>)
     /\ EndsWith(ToLowerCase(cKey), sLowerId)
     /\ cStyle \in RecognisedStyles) =>
        cOut = JsonObject(<<Kid(TransformKey(SliceOffLast2(cKey), cStyle) \o sId,
                                JsonNumber(1))>>)

\* C15: for a non-empty identifier of letters only,
\* toPascalCase(toSnakeCase(x)) = toPascalCase(x)
C15_PascalOfSnake ==
    (/\ cPc = "converted"
     /\ cKey # <<>>
     /\ \A i \in 1..Len(cKey) : IsLetter(cKey[i])) =>
        cOut.pascalOfSnake = cOut.pascal

\* C16: with a style token that is a string other than the four styles (in
\* any letter case), transformCase returns its argument unchanged
C16_UnknownStyleIsIdentity ==
    (/\ cPc \in {"returned", "threw"}
     /\ cStyle.isString
     /\ StyleToken(ToLowerCase(cStyle.text)) \notin RecognisedStyles) =>
        (cPc = "returned" /\ cOut = cValue)

----------------------------------------------------------------------------
(* Claims about the import script and the order of generation *)

\* C17: the import script exists only when every entity of the resolved
\* order has had its records generated and its file written, and it lists
\* the entities of that order, each once, in that order
C17_ScriptAfterAllWritten ==
    script.written =>
        /\ pc = "returned"
        /\ written = sorted
        /\ script.entities = sorted
        /\ \A i \in 1..Len(sorted) :
              /\ HasRecords(generated, sorted[i])
              /\ Len(RecordsOf(generated, sorted[i])) = count
              /\ Occurrences(script.entities, sorted[i]) = 1

\* a first run over two entities with one record each wrote the script
C17_Witness ==
    /\ script.written /\ run = 1
    /\ Len(sorted) = 2 /\ count = 1
    /\ script.entities = sorted /\ written = sorted

\* A depth-first traversal as one function: `st` holds the entities entered
\* so far and the post-order sequence appended so far.
RECURSIVE PostOrderVisit(_, _), PostOrderDeps(_, _), PostOrderFrom(_, _)
PostOrderVisit(n, st) ==
    IF n \in st.seen THEN st
    ELSE LET below == PostOrderDeps(DepsOf(n), [seen |-> st.seen \cup {n}, out |-> st.out])
         IN [seen |-> below.seen, out |-> Append(below.out, n)]

PostOrderDeps(deps, st) ==
    IF deps = <<>> THEN st
    ELSE PostOrderDeps(Tail(deps),
                       IF InGraph(Head(deps)) /\ Head(deps) \notin cycles
                       THEN PostOrderVisit(Head(deps), st) ELSE st)

PostOrderFrom(keys, st) ==
    IF keys = <<>> THEN st
    ELSE PostOrderFrom(Tail(keys), PostOrderVisit(Head(keys), st))

SecondTraversal == PostOrderFrom(GraphKeys, [seen |-> {}, out |-> <<>>])

\* an edge of the graph whose target is a cycle member
SkippedEdge ==
    \E i \in 1..Len(graph) : \E j \in 1..Len(graph[i].dependencies) :
        graph[i].dependencies[j] \in cycles

\* an edge of the graph that the second pass follows to another entity
FollowedEdge ==
    \E i \in 1..Len(graph) : \E j \in 1..Len(graph[i].dependencies) :
        /\ FollowsEdge(graph[i].dependencies[j])
        /\ graph[i].dependencies[j] # graph[i].name

\* C18: the returned order is the reverse of the post-order of a depth-first
\* traversal started at every entity in key order that follows an edge only
\* to an entity of the graph outside the cycle set, and that traversal
\* enters every entity
C18_ReverseSecondPostOrder ==
    pc = "sorted" =>
        /\ sorted = Reverse(SecondTraversal.out)
        /\ \A i \in 1..Len(graph) : graph[i].name \in SecondTraversal.seen

\* a sort returned three entities after skipping an edge into the cycle set
\* and following another edge
C18_Witness ==
    /\ pc = "sorted" /\ Len(sorted) = 3
    /\ SkippedEdge /\ FollowedEdge
    /\ sorted # GraphKeys /\ sorted # Reverse(GraphKeys)

EntityNames == Range(GraphKeys)

\* the many-to-one dependencies between entities of the graph
DependencyEdges ==
    {e \in EntityNames \X EntityNames : e[2] \in Range(DepsOf(e[1]))}

\* the edges the second pass follows
FollowedEdges == {e \in DependencyEdges : FollowsEdge(e[2])}

\* a path of 1..n edges of E from a to b
RECURSIVE PathWithin(_, _, _, _)
PathWithin(E, a, b, n) ==
    /\ n > 0
    /\ \/ <<a, b>> \in E
       \/ \E m \in EntityNames : <<a, m>> \in E /\ PathWithin(E, m, b, n - 1)

OnCycle(E, a) == PathWithin(E, a, a, Cardinality(EntityNames))

\* C19: every entity of the cycle set lies on a directed cycle of
\* dependencies between entities of the graph, and once the first pass has
\* ended no directed cycle is left among the edges the second pass follows
C19_CycleSetCutsEveryCycle ==
    /\ \A n \in cycles : n \in EntityNames /\ OnCycle(DependencyEdges, n)
    /\ pc \in {"pass2", "sorted"} =>
          \A n \in EntityNames : ~OnCycle(FollowedEdges, n)

\* the first pass ended with an entity on a cycle left unmarked, an entity
\* marked, and an entity that is on no cycle and is met twice
C19_Witness ==
    /\ pc = "pass2" /\ k = 1
    /\ \E a, b, c \in EntityNames :
          /\ a \in cycles /\ b \notin cycles /\ c \notin cycles
          /\ OnCycle(DependencyEdges, b)
          /\ ~OnCycle(DependencyEdges, c)
          /\ <<a, c>> \in DependencyEdges /\ <<b, c>> \in DependencyEdges

\* one step inside a run of generateAllEntities
StepOfOneRun == pc = "generate" /\ pc' \in {"generate", "returned"} /\ run' = run

\* the loop moves to the next entity of the order: the count records of the
\* current one are complete and are written, and the stream is left alone
NextEntityStep ==
    /\ gi' = gi + 1 /\ gi <= Len(sorted)
    /\ ri = count /\ Len(cur) = count
    /\ written' = Append(written, sorted[gi])
    /\ RecordsOf(generated', sorted[gi]) = cur
    /\ ri' = 0 /\ cur' = <<>> /\ rng' = rng

\* record number ri is complete and is appended to the records of the entity
NextRecordStep ==
    /\ ri' = ri + 1 /\ ri < count /\ pi > Len(CurrentEntity.properties)
    /\ cur' = Append(cur, rec) /\ pi' = 1
    /\ gi' = gi /\ written' = written /\ rng' = rng

\* the property at position pi of the declaration is handled: the record in
\* hand gains at most that field
NextFieldStep ==
    /\ pi' = pi + 1 /\ pi <= Len(CurrentEntity.properties)
    /\ (DOMAIN rec') \ (DOMAIN rec) \subseteq {CurrentEntity.properties[pi].name}
    /\ \A f \in DOMAIN rec :
          f # CurrentEntity.properties[pi].name => rec'[f] = rec[f]
    /\ gi' = gi /\ ri' = ri /\ cur' = cur /\ written' = written

C20_Step ==
    StepOfOneRun =>
        /\ gi' # gi => NextEntityStep
        /\ written' # written => NextEntityStep
        /\ ri' # ri => (NextRecordStep \/ NextEntityStep)
        /\ pi' # pi => (NextFieldStep \/ NextRecordStep)
        /\ rng' # rng => NextFieldStep
        /\ written = SubSeq(sorted, 1, gi - 1)
        /\ Len(cur) = ri /\ ri <= count

\* C20: within a run entities are taken in the resolved order, the records
\* of an entity are completed one by one up to count with the properties
\* handled in declaration order, an entity's file is written in the step
\* that moves to the next entity, and the stream changes only by the draws
\* of property generation
C20_StrictOrderOneSeed == [][C20_Step]_vars

\* the first entity's file is written, the stream has advanced past its
\* seeded state, and the first property of the second entity is handled
C20_Witness ==
    /\ pc = "generate" /\ Len(sorted) = 2 /\ count = 1
    /\ gi = 2 /\ written = <<sorted[1]>>
    /\ ri = 0 /\ pi = 2
    /\ Len(CurrentEntity.properties) = 2
    /\ rng # FakerSeed(seed)

----------------------------------------------------------------------------
(* Claims about the parser *)

\* the lines scanned so far in which a property was found, in order
DeclaredAt == SelectSeq([i \in 1..(lnI - 1) |-> i], LAMBDA i : lnLines[i].kind = "field")

\* the markers of the marker lines that stand directly above line i + 1,
\* with only blank lines and comments in between
RECURSIVE MarkersAbove(_)
MarkersAbove(i) ==
    IF i = 0 THEN <<>>
    ELSE IF lnLines[i].kind = "marker" THEN MarkersAbove(i - 1) \o lnLines[i].attrs
    ELSE IF lnLines[i].kind \in {"comment", "blank"} THEN MarkersAbove(i - 1)
    ELSE <<>>

\* C21: the attributes of every property are the markers of the marker
\* lines directly above its declaration, no marker having passed another
\* declaration or a statement, and isRequired and maxLength follow them
C21_MarkersFromLinesAbove ==
    /\ Len(lnProps) = Len(DeclaredAt)
    /\ \A n \in 1..Len(lnProps) :
          LET above == MarkersAbove(DeclaredAt[n] - 1)
          IN /\ lnProps[n].attributes = above
             /\ lnProps[n].isRequired = IsRequired(above)
             /\ lnProps[n].maxLength = ExtractMaxLength(above)

----------------------------------------------------------------------------
(* Claims about the schema generator and withTransaction *)

\* C26: an array generated for a field with an items definition has a
\* length between minItems (0 when absent) and maxItems (5 when absent)
C26_ArrayLengthWithinBounds ==
    \A i \in 1..Len(scItem) :
        LET definition == scSchema.properties[i].definition
        IN (definition.type = "array" /\ definition.items # <<>>) =>
              /\ Len(scItem[i].value.kids) >=
                    (IF definition.minItems = Absent THEN 0 ELSE definition.minItems)
              /\ Len(scItem[i].value.kids) <=
                    (IF definition.maxItems = Absent THEN 5 ELSE definition.maxItems)

\* C28: validateObject finds no error in a record generateMockItem
\* produced from the same schema
C28_GeneratedRecordValidates ==
    scPc = "validated" => scErrors = <<>>

Issued(call) == Cardinality({i \in 1..Len(txLog) : txLog[i] = call})

\* the call whose rejection makes the transaction fail
FailureCause ==
    IF txFails.begin THEN "beginTransaction"
    ELSE IF txFails.failAt # 0 THEN "query"
    ELSE IF txFails.commit THEN "commit"
    ELSE "none"

\* C27: commit and rollback are sent only to a connection on which
\* beginTransaction succeeded; a begun transaction ends either with a
\* commit that succeeds and no rollback, or with one rollback; and the
\* caller receives the error that made the transaction fail
C27_CommitOrRollbackOnceAfterBegin ==
    /\ (Issued("commit") + Issued("rollback") > 0) =>
          (Issued("beginTransaction") = 1 /\ ~txFails.begin)
    /\ txPc = "returned" =>
          (FailureCause = "none" /\ Issued("commit") = 1 /\ Issued("rollback") = 0)
    /\ txPc = "threw" =>
          /\ txThrown = FailureCause
          /\ ~txFails.begin => Issued("rollback") = 1

----------------------------------------------------------------------------
(* Claims about relationships *)

KnownEntities == {entities[i].entityName : i \in 1..Len(entities)}

\* the properties of entity e that are named n
PropertiesNamed(e, n) ==
    {e.properties[i] : i \in {j \in 1..Len(e.properties) : e.properties[j].name = n}}

\* C22: every many-to-one relationship comes from an int property whose
\* name ends in Id and whose name without Id is a known entity, and every
\* dependency of the graph is a known entity
C22_ManyToOneTargetsKnown ==
    pc # "parse" =>
        /\ \A i \in 1..Len(entities) : \A j \in 1..Len(entities[i].relationships) :
              LET rel == entities[i].relationships[j]
              IN rel.type = "manyToOne" =>
                    /\ EndsWith(rel.propertyName, sId)
                    /\ \E prop \in PropertiesNamed(entities[i], rel.propertyName) :
                          prop.type = sInt
                    /\ rel.targetEntity = SliceOffLast2(rel.propertyName)
                    /\ rel.targetEntity \in KnownEntities
        /\ \A i \in 1..Len(graph) : \A j \in 1..Len(graph[i].dependencies) :
              graph[i].dependencies[j] \in KnownEntities

\* the entity a type names: the type itself, or the element type of a
\* collection
NamedByType(t) == IF IsCollectionType(t) THEN GenericArgument(t) ELSE t

\* C23: a property is a navigation property only if its type, or the
\* element type of its collection type, is a known entity, and every
\* one-to-one and one-to-many relationship has a known entity as target
C23_NavigationOnlyToKnownEntities ==
    pc # "parse" =>
        \A i \in 1..Len(entities) :
            /\ \A j \in 1..Len(entities[i].properties) :
                  entities[i].properties[j].isNavigation =>
                      NamedByType(entities[i].properties[j].type) \in KnownEntities
            /\ \A j \in 1..Len(entities[i].relationships) :
                  entities[i].relationships[j].type \in {"oneToOne", "oneToMany"} =>
                      entities[i].relationships[j].targetEntity \in KnownEntities

----------------------------------------------------------------------------
(* Claims about transformCase on nested values and about the conversions *)

\* every key rewritten at every depth, everything else kept
RECURSIVE Rekeyed(_, _)
Rekeyed(v, caseStyle) ==
    IF v.t = "object"
    THEN JsonObject([i \in 1..Len(v.kids) |->
                        Kid(TransformKey(v.kids[i].key, caseStyle),
                            Rekeyed(v.kids[i].val, caseStyle))])
    ELSE IF v.t = "array"
    THEN JsonArray([i \in 1..Len(v.kids) |-> Rekeyed(v.kids[i].val, caseStyle)])
    ELSE v

\* no two keys of the object become the same key
KeysStayApart(v, caseStyle) ==
    \A i, j \in 1..Len(v.kids) :
        TransformKey(v.kids[i].key, caseStyle) = TransformKey(v.kids[j].key, caseStyle)
            => i = j

\* C24: for a string style and an object whose keys stay apart,
\* transformCase returns the object with every key rewritten at every
\* depth, arrays and scalar values kept as they are, and throws nothing
C24_EveryKeyAtEveryDepth ==
    (/\ cPc \in {"returned", "threw"}
     /\ cStyle.isString
     /\ KeysStayApart(cValue, cStyle)) =>
        (cPc = "returned" /\ cOut = Rekeyed(cValue, cStyle))

\* pascal.charAt(0).toLowerCase() + pascal.slice(1)
LowerFirst(str) == IF str = <<>> THEN <<>> ELSE <<ToLowerChar(str[1])>> \o Tail(str)

\* C25: toCamelCase(k) is toPascalCase(k) with its first character
\* lower-cased
C25_CamelIsLoweredPascal ==
    cPc = "convertedEach" => cOut.camel = LowerFirst(cOut.pascal)

\* C29: the object transformCase returns has as many keys as its argument,
\* and every scalar value stands under the transformed form of its key
C29_EntriesOneToOne ==
    (cPc = "returned" /\ cStyle.isString) =>
        /\ Len(cOut.kids) = Len(cValue.kids)
        /\ \A i \in 1..Len(cValue.kids) :
              ~TypeofObject(cValue.kids[i].val) =>
                  \E j \in 1..Len(cOut.kids) :
                      /\ cOut.kids[j].key = TransformKey(cValue.kids[i].key, cStyle)
                      /\ cOut.kids[j].val = cValue.kids[i].val

\* C30: each of the four conversions gives the same result applied twice
\* as applied once
C30_ConversionsIdempotent ==
    cPc = "convertedEach" =>
        /\ cOut.pascalTwice = cOut.pascal
        /\ cOut.camelTwice = cOut.camel
        /\ cOut.snakeTwice = cOut.snake
        /\ cOut.kebabTwice = cOut.kebab

====
